---- MODULE Spec2Model ----
(***************************************************************************)
(* The notification pipeline of notify/notify.go: the receiver pipeline    *)
(* MuteStage(inhibit), TimeActiveStage, TimeMuteStage, MuteStage(silence),  *)
(* FanoutStage{ per integration MultiStage{DedupStage, RetryStage} }, run   *)
(* by several concurrent pipeline executions against one shared key-value   *)
(* store.  One alert identity (group key, receiver, label hash) is          *)
(* followed, so every integration owns one state key and one sent counter.  *)
(*                                                                         *)
(* Time is counted in ticks.  A key set at some instant with a TTL of R     *)
(* ticks exists at that instant and the R-1 following ones.                 *)
(***************************************************************************)
EXTENDS Integers, Sequences, FiniteSets, TLC

\* ------------------------------------------------------------------ bounds

\* The repeat interval of the route, in ticks (the TTL of a state key).
RepeatTicks == 2
\* Pipeline executions the dispatcher starts in one behaviour.
MaxStarts == 3
\* Notify calls one RetryStage execution may see fail with a retryable error.
MaxRetryable == 1
\* Store calls that may fail while the context is not done.
MaxFaults == 1
\* The executions of a RetryStage that is run on its own.
MaxRetryStarts == 2
\* The errors with retry = true an integration returns to one such execution.
MaxRetries == 2

\* ------------------------------------------------------- the configuration

\* Concurrent pipeline executions (each may be started again once it returned).
Execs == {"e1", "e2"}
\* The integrations of the receiver, one FanoutStage child each.
Integrations == {"webhook", "email"}
\* Integration.SendResolved of each integration.
SendResolved(i) == i = "webhook"
\* The values Alert.Stage takes: the empty string (a producer that sets no
\* stage) and a named one.
Stages == {"", "active"}
\* A key the store does not hold (redis.Nil).
NoKey == "<nil>"
\* The hash of the alert followed.
Hash == "h"

\* The time-interval table: interval name -> list of windows (sets of instants).
Times == [work |-> <<{1}, {2}>>, night |-> <<{0}>>]
KnownNames == DOMAIN Times
\* A name no table entry exists for.
AllNames == KnownNames \cup {"ghost"}
NowValues == {0, 1}

VARIABLES
    cfg,        \* the configuration the behaviour runs under (never changes)
    rdb,        \* the store: per integration its state key, the key's TTL, its sent counter
    alert,      \* per execution the alert object the batch points to
    ctx,        \* per execution the context the dispatcher passed in
    exec,       \* per execution: the pipeline's position and its last result
    task,       \* per execution and integration: the FanoutStage child's position and locals
    metrics,    \* per integration notifications_total and friends
    starts,     \* executions the dispatcher may still start
    faults,     \* store failures that may still be injected
    hist,       \* per integration, what happened to its key (to state properties)
    unit        \* the last call of a stage that was executed on its own, and its result

vars == <<cfg, rdb, alert, ctx, exec, task, metrics, starts, faults, hist, unit>>

\* ------------------------------------------------------------ pure stages

\* What a Stage.Exec returns: the (filtered) batch and the error ("" is nil).
Ret(alerts, err) == [alerts |-> alerts, err |-> err]

\* An optional context value: (v, ok) of the typed accessors.
Some(v) == [ok |-> TRUE, v |-> v]
None == [ok |-> FALSE, v |-> <<>>]
\* No Now in the context.
NoTime == [ok |-> FALSE, v |-> 0]

\* A MuteStage that keeps the alerts its muter mutes.
MuteStageKeepsMuted(muter, alerts) ==
    Ret(SelectSeq(alerts, LAMBDA a : a \in muter), "")

\* MuteStage.Exec: the alerts the muter does not mute, in order; never an error.
MuteStageExec(muter, alerts) ==
    Ret(SelectSeq(alerts, LAMBDA a : a \notin muter), "")

\* Whether one of the windows of an interval contains now.
RECURSIVE ContainsTime(_, _)
ContainsTime(interval, now) ==
    IF interval = <<>> THEN FALSE
    ELSE IF now \in Head(interval) THEN TRUE
    ELSE ContainsTime(Tail(interval), now)

\* An inTimeIntervals that passes over the names the table does not hold.
RECURSIVE inTimeIntervalsSkipping(_, _, _)
inTimeIntervalsSkipping(now, intervals, intervalNames) ==
    IF intervalNames = <<>> THEN "false"
    ELSE IF Head(intervalNames) \notin DOMAIN intervals
    THEN inTimeIntervalsSkipping(now, intervals, Tail(intervalNames))
    ELSE IF ContainsTime(intervals[Head(intervalNames)], now) THEN "true"
    ELSE inTimeIntervalsSkipping(now, intervals, Tail(intervalNames))

\* inTimeIntervals: "true" at the first listed interval that contains now, "err"
\* at the first listed name the table does not hold, "false" at the end of the list.
RECURSIVE inTimeIntervals(_, _, _)
inTimeIntervals(now, intervals, intervalNames) ==
    IF intervalNames = <<>> THEN "false"
    ELSE IF Head(intervalNames) \notin DOMAIN intervals THEN "err"
    ELSE IF ContainsTime(intervals[Head(intervalNames)], now) THEN "true"
    ELSE inTimeIntervals(now, intervals, Tail(intervalNames))

\* A TimeMuteStage that, like TimeActiveStage, lets an empty list of names pass
\* before it asks for Now.
TimeMuteStagePassesEmpty(c, alerts) ==
    IF ~c.mute.ok THEN Ret(alerts, "")
    ELSE IF Len(c.mute.v) = 0 THEN Ret(alerts, "")
    ELSE IF ~c.now.ok THEN Ret(alerts, "missing now timestamp")
    ELSE LET muted == inTimeIntervals(c.now.v, Times, c.mute.v)
         IN  IF muted = "err" THEN Ret(alerts, "time interval doesn't exist in config")
             ELSE IF muted = "true" THEN Ret(<<>>, "")
             ELSE Ret(alerts, "")

\* TimeMuteStage.Exec
TimeMuteStageExec(c, alerts) ==
    IF ~c.mute.ok THEN Ret(alerts, "")
    ELSE IF ~c.now.ok THEN Ret(alerts, "missing now timestamp")
    ELSE LET muted == inTimeIntervals(c.now.v, Times, c.mute.v)
         IN  IF muted = "err" THEN Ret(alerts, "time interval doesn't exist in config")
             ELSE IF muted = "true" THEN Ret(<<>>, "")
             ELSE Ret(alerts, "")

\* A TimeActiveStage that, like TimeMuteStage, does not look at the length of
\* the list of names.
TimeActiveStageNeedsNow(c, alerts) ==
    IF ~c.active.ok THEN Ret(alerts, "")
    ELSE IF ~c.now.ok THEN Ret(alerts, "missing now timestamp")
    ELSE LET active == inTimeIntervals(c.now.v, Times, c.active.v)
         IN  IF active = "err" THEN Ret(alerts, "time interval doesn't exist in config")
             ELSE IF active # "true" THEN Ret(<<>>, "")
             ELSE Ret(alerts, "")

\* TimeActiveStage.Exec
TimeActiveStageExec(c, alerts) ==
    IF ~c.active.ok THEN Ret(alerts, "")
    ELSE IF Len(c.active.v) = 0 THEN Ret(alerts, "")
    ELSE IF ~c.now.ok THEN Ret(alerts, "missing now timestamp")
    ELSE LET active == inTimeIntervals(c.now.v, Times, c.active.v)
         IN  IF active = "err" THEN Ret(alerts, "time interval doesn't exist in config")
             ELSE IF active # "true" THEN Ret(<<>>, "")
             ELSE Ret(alerts, "")

\* A pipeline built without the silence stage.
FrontStagesUnsilenced == <<"is", "tas", "tms">>

\* The stages PipelineBuilder.New puts before the receiver's FanoutStage.
FrontStages == <<"is", "tas", "tms", "ss">>

\* Exec of one of the front stages; c.inhibited and c.silenced are the alerts the
\* inhibitor and the silencer mute while the execution runs.
StageExec(s, c, alerts) ==
    CASE s = "is"  -> MuteStageExec(c.inhibited, alerts)
      [] s = "tas" -> TimeActiveStageExec(c, alerts)
      [] s = "tms" -> TimeMuteStageExec(c, alerts)
      [] s = "ss"  -> MuteStageExec(c.silenced, alerts)

\* MultiStage.Exec over the front stages: stops with a nil batch as soon as the
\* batch is empty, and with the error of the first stage that fails.  "next" is
\* TRUE when the loop arrives at the stage after them with a batch to pass on.
RECURSIVE MultiStageExec(_, _, _)
MultiStageExec(ms, c, alerts) ==
    IF Len(alerts) = 0 THEN [alerts |-> <<>>, err |-> "", next |-> FALSE]
    ELSE IF ms = <<>> THEN [alerts |-> alerts, err |-> "", next |-> TRUE]
    ELSE LET r == StageExec(Head(ms), c, alerts)
         IN  IF r.err # "" THEN [alerts |-> <<>>, err |-> r.err, next |-> FALSE]
             ELSE MultiStageExec(Tail(ms), c, r.alerts)

\* ------------------------------------------------------------------ state

\* The configurations checked: which integrations the receiver has, which
\* executions the dispatcher runs side by side and how many it starts, whether
\* a context may become done while its execution runs, how many store calls may
\* fail, how many Notify calls of one RetryStage execution may fail with a
\* retryable error, and whether the contexts name time intervals.
\*   - concurrent executions on a receiver with one integration;
\*   - one execution at a time on a receiver with both integrations;
\*   - one execution at a time, one integration, contexts that may become done,
\*     a store that may fail and an integration that may ask for a retry;
\*   - a single execution, one integration, a context with time intervals;
\*   - a single execution, both integrations, a context that may lack GroupKey
\*     or RepeatInterval (elsewhere the dispatcher has put both in);
\*   - a single execution, both integrations, a context that may become done.
Config(is, es, n, cancel, f, r, times) ==
    [integrations |-> is, execs |-> es, starts |-> n, cancel |-> cancel,
     faults |-> f, retryable |-> r, texts |-> {"timeout"}, times |-> times,
     keys |-> TRUE]

Configs ==
    {Config({"webhook"}, Execs, MaxStarts, FALSE, 0, 0, FALSE)}
    \cup {Config(Integrations, {"e1"}, MaxStarts, FALSE, 0, 0, FALSE)}
    \cup {Config({i}, {"e1"}, MaxStarts, TRUE, MaxFaults, MaxRetryable, FALSE) : i \in Integrations}
    \cup {Config({"webhook"}, {"e1"}, 1, FALSE, 0, 0, TRUE)}
    \cup {[Config(Integrations, {"e1"}, 1, FALSE, 0, 0, FALSE) EXCEPT !.keys = FALSE]}
    \cup {Config(Integrations, {"e1"}, 1, TRUE, 0, 0, FALSE)}

\* A FanoutStage child that is not running.  Its locals are those of DedupStage.Exec and RetryStage.exec:
\*   stage     the stage read at the state key; found: the Get returned a value
\*   firing, resolved   the hash lists DedupStage puts in the context
\*   out       needsUpdateAlerts, then the batch the child's MultiStage holds
\*   sent      the alerts RetryStage passes to Notify
\*   count     the counter value the store returned (-1: none)
\*   calls     the Notify calls made; seen: the SentCount the last call read
\*   iErr, err the last error of the integration, the error the child returns
\*   hasFiring the context carries a FiringAlerts list
\*   inp       the batch RetryStage.Exec was called with
\*   warns     the warnings RetryStage logged
\*   late      the Notify calls made on a context that was done
\*   last      what the last Notify call answered
\*   errs      the texts of the errors of the attempts that failed, in order
\* and, to state properties: kvErr (a store call of this DedupStage execution
\* failed), solo (no other execution was inside DedupStage for this key while
\* this one was), age (ticks since this execution's SetNX set the key, while
\* its Incr is outstanding).
IdleTask ==
    [pc |-> "idle", stage |-> "", found |-> FALSE, firing |-> <<>>,
     resolved |-> <<>>, out |-> <<>>, sent |-> <<>>, count |-> -1, calls |-> 0,
     seen |-> -1, iErr |-> "", err |-> "", kvErr |-> FALSE, solo |-> TRUE,
     age |-> 0, hasFiring |-> TRUE, inp |-> <<>>, warns |-> 0, late |-> 0,
     last |-> "", errs |-> <<>>]

\* The context of an execution nothing was started in yet.
NoCtx ==
    [inhibited |-> {}, silenced |-> {}, active |-> None, mute |-> None,
     now |-> NoTime, done |-> FALSE, gkey |-> TRUE, repeat |-> TRUE]

NoAlert == [Stage |-> "", Resolved |-> FALSE, SentCount |-> 0]

\* The history of a key: sinceSet, the ticks since a SetNX last set it, and
\* sinceFiring, the ticks since a Notify call with the alert firing last
\* succeeded (both stop counting at RepeatTicks, where they start); delSince, a
\* Del deleted the key since it was last set; fired, how far a firing alert
\* ever got: "no", "set" (a SetNX set the key), "sent" (a Notify call with the
\* alert firing succeeded); delivered, the Notify calls with the alert firing
\* that succeeded.
NoHist ==
    [sinceSet |-> RepeatTicks, sinceFiring |-> RepeatTicks, delSince |-> FALSE,
     fired |-> "no", delivered |-> 0]

\* An execution slot nothing ran in: st, where the execution is; err, ret and
\* me, the error, the alert list and the contents of the multi-error that the
\* last execution returned.
NoExec == [st |-> "idle", err |-> "", ret |-> <<>>, me |-> {}]

\* The counters of one integration name, newly registered; the failed
\* notifications are summed over their reason labels.
NoMetrics ==
    [numNotifications |-> 0, numTotalFailedNotifications |-> 0,
     numNotificationRequestsTotal |-> 0, numNotificationRequestsFailedTotal |-> 0]

\* No stage was executed on its own.
NoCall == [op |-> "none"]

\* One more tick on a count that stops at RepeatTicks.
Older(n) == IF n < RepeatTicks THEN n + 1 ELSE n

Init ==
    /\ cfg \in Configs
    /\ rdb = [i \in Integrations |-> [stage |-> NoKey, ttl |-> 0, sent |-> 0]]
    /\ alert = [e \in Execs |-> NoAlert]
    /\ ctx = [e \in Execs |-> NoCtx]
    /\ exec = [e \in Execs |-> NoExec]
    /\ task = [e \in Execs |-> [i \in Integrations |-> IdleTask]]
    /\ metrics = [i \in Integrations |-> NoMetrics]
    /\ starts = cfg.starts
    /\ faults = cfg.faults
    /\ hist = [i \in Integrations |-> NoHist]
    /\ unit = NoCall

\* --------------------------------------------------------------- the store

\* An Exists that answers 1 for every key.
ExistsAlways(i) == TRUE

\* Whether the state key of integration i exists.
Exists(i) == rdb[i].stage # NoKey

\* The outcomes of one store call of execution e: FALSE it succeeds, TRUE it
\* returns an error.  A call fails because the store does (while the budget
\* lasts) or because the context it is given is done.
CallErrs(e) == IF ctx[e].done \/ faults > 0 THEN {FALSE, TRUE} ELSE {FALSE}

\* The fault budget after a call of execution e that did (not) fail.
Spend(e, err) == IF err /\ ~ctx[e].done THEN faults - 1 ELSE faults

\* A SetNX that gives the key one tick more than the TTL it is called with.
SetNXLonger(i, stage, ttl) ==
    IF rdb[i].stage # NoKey THEN [ok |-> FALSE, rdb |-> rdb]
    ELSE [ok |-> TRUE, rdb |-> [rdb EXCEPT ![i].stage = stage, ![i].ttl = ttl + 1]]

\* A SetNX that leaves the value of a key that exists but renews its TTL.
SetNXRefresh(i, stage, ttl) ==
    IF rdb[i].stage # NoKey THEN [ok |-> FALSE, rdb |-> [rdb EXCEPT ![i].ttl = ttl]]
    ELSE [ok |-> TRUE, rdb |-> [rdb EXCEPT ![i].stage = stage, ![i].ttl = ttl]]

\* A plain Set in the place of SetNX: the key is written whether or not it exists.
SetAlways(i, stage, ttl) ==
    [ok |-> TRUE, rdb |-> [rdb EXCEPT ![i].stage = stage, ![i].ttl = ttl]]

\* A SetNX that writes over a key no delivery has followed yet.
SetNXUnlessUndelivered(i, stage, ttl) ==
    IF rdb[i].stage # NoKey /\ hist[i].fired # "set" THEN [ok |-> FALSE, rdb |-> rdb]
    ELSE [ok |-> TRUE, rdb |-> [rdb EXCEPT ![i].stage = stage, ![i].ttl = ttl]]

\* SetNX(sKey, stage, ttl) on a store that answers: sets the key, with its TTL,
\* iff the key does not exist, and says whether it did.
SetNX(i, stage, ttl) ==
    IF Exists(i) THEN [ok |-> FALSE, rdb |-> rdb]
    ELSE [ok |-> TRUE, rdb |-> [rdb EXCEPT ![i].stage = stage, ![i].ttl = ttl]]

\* A Del that deletes nothing.
DelNothing(i) == rdb

\* Del(sKey)
Del(i) == [rdb EXCEPT ![i].stage = NoKey, ![i].ttl = 0]

\* An Incr that answers but does not store the new value.
IncrLost(i) == [val |-> rdb[i].sent + 1, rdb |-> rdb]

\* An Incr that returns the value the counter had before.
IncrStale(i) == [val |-> rdb[i].sent, rdb |-> [rdb EXCEPT ![i].sent = @ + 1]]

\* Incr(AlertSentPrefix + sKey): a counter that does not exist counts from 0;
\* the new value is returned.
Incr(i) == [val |-> rdb[i].sent + 1, rdb |-> [rdb EXCEPT ![i].sent = @ + 1]]

\* One tick of the clock: every TTL runs down, and a key whose TTL ran out is gone.
\* The sent counter has no TTL.
Expire(k) ==
    IF k.ttl > 1 THEN [k EXCEPT !.ttl = @ - 1]
    ELSE [k EXCEPT !.ttl = 0, !.stage = NoKey]

\* ------------------------------------------------------------ the dispatcher

\* The alerts the provider hands over: any Stage, firing or resolved.
AlertInputs == [Stage : Stages, Resolved : BOOLEAN, SentCount : {0}]

\* The lists of at most two interval names a context may carry.
NameLists == {<<>>} \cup {<<n>> : n \in AllNames} \cup {<<n, m>> : n, m \in AllNames}

\* GroupKey, or RepeatInterval, in the contexts passed in: present, or, where
\* the configuration says so, either way.
KeyInputs == IF cfg.keys THEN {TRUE} ELSE BOOLEAN

\* The contexts the dispatcher passes in: the muters answer either way for the
\* alert; with named time intervals, any lists of names and any Now, each
\* present or not.
CtxInputs(e) ==
    IF cfg.times
    THEN [inhibited : SUBSET {e}, silenced : SUBSET {e},
          active : {None} \cup {Some(l) : l \in NameLists},
          mute : {None} \cup {Some(l) : l \in NameLists},
          now : {NoTime} \cup {Some(n) : n \in NowValues}, done : {FALSE},
          gkey : KeyInputs, repeat : KeyInputs]
    ELSE [inhibited : SUBSET {e}, silenced : SUBSET {e}, active : {None},
          mute : {None}, now : {NoTime}, done : {FALSE},
          gkey : KeyInputs, repeat : KeyInputs]

\* The positions inside DedupStage.Exec.
InDedup(t) == t.pc \in {"dedup", "getcnt", "del", "setnx", "incr"}

\* No other execution is inside the DedupStage of integration i.
Solo(e, i) == \A x \in Execs \ {e} : ~InDedup(task[x][i])

\* The dispatcher starts an execution in a slot that is free, while it has some
\* left to start.
CanStart(e) ==
    /\ e \in cfg.execs
    /\ exec[e].st \in {"idle", "stopped"}
    /\ starts > 0

\* RoutingStage.Exec for the receiver, then the receiver's MultiStage up to its
\* FanoutStage: the four front stages run in the caller's goroutine, and
\* FanoutStage.Exec starts one goroutine per integration on the same batch (the
\* same alert objects).  An execution the front stages stop returns at once.
Start(e, a, c) ==
    /\ CanStart(e)
    /\ starts' = starts - 1
    /\ ctx' = [ctx EXCEPT ![e] = c]
    /\ LET r == MultiStageExec(FrontStages, c, <<e>>)
       IN  /\ alert' = [alert EXCEPT ![e] = IF r.next THEN a ELSE NoAlert]
           /\ exec' = [exec EXCEPT ![e] =
                          [st |-> IF r.next THEN "fanout" ELSE "stopped",
                           err |-> r.err, ret |-> <<>>, me |-> {}]]
           /\ task' = [x \in Execs |-> [i \in Integrations |->
                          IF x = e
                          THEN IF r.next /\ i \in cfg.integrations
                               THEN [IdleTask EXCEPT !.pc = "dedup", !.solo = Solo(e, i)]
                               ELSE IdleTask
                          ELSE IF r.next /\ InDedup(task[x][i])
                               THEN [task[x][i] EXCEPT !.solo = FALSE]
                               ELSE task[x][i]]]
    /\ UNCHANGED <<unit, cfg, rdb, metrics, faults, hist>>

\* The deadline of the context passes, or the dispatcher cancels it.
Cancel(e) ==
    /\ cfg.cancel
    /\ exec[e].st \in {"fanout", "retry"}
    /\ ~ctx[e].done
    /\ ctx' = [ctx EXCEPT ![e].done = TRUE]
    /\ UNCHANGED <<unit, cfg, rdb, alert, exec, task, metrics, starts, faults, hist>>

\* One tick passes.
Tick ==
    /\ rdb' = [i \in Integrations |-> Expire(rdb[i])]
    /\ hist' = [i \in Integrations |->
                   [hist[i] EXCEPT !.sinceSet = Older(@), !.sinceFiring = Older(@)]]
    /\ task' = [e \in Execs |-> [i \in Integrations |->
                   IF task[e][i].pc = "incr"
                   THEN [task[e][i] EXCEPT !.age = Older(@)] ELSE task[e][i]]]
    /\ UNCHANGED <<unit, cfg, alert, ctx, exec, metrics, starts, faults>>

\* -------------------------------------------------------------- DedupStage

\* The child's MultiStage after DedupStage returned t.out: with an empty batch it
\* returns (nil, nil) and RetryStage is not executed.
AfterDedup(t) ==
    IF Len(t.out) = 0 THEN [t EXCEPT !.pc = "done"] ELSE [t EXCEPT !.pc = "retry"]

\* The context has the GroupKey and the RepeatInterval DedupStage.Exec asks for.
HasKeys(e) == ctx[e].gkey /\ ctx[e].repeat

\* A DedupStage that does not ask for GroupKey and RepeatInterval and emits the
\* alert.
DedupMissingPasses(e, i) ==
    /\ task[e][i].pc = "dedup"
    /\ ~HasKeys(e)
    /\ task' = [task EXCEPT ![e][i] = [@ EXCEPT !.pc = "retry", !.out = <<e>>]]
    /\ UNCHANGED <<unit, cfg, rdb, alert, ctx, exec, metrics, starts, faults, hist>>

\* DedupStage.Exec on a context without GroupKey, or without RepeatInterval:
\* it returns (ctx, nil, err) before its loop, and the child's MultiStage
\* returns the error without executing RetryStage.
DedupMissing(e, i) ==
    /\ task[e][i].pc = "dedup"
    /\ ~HasKeys(e)
    /\ task' = [task EXCEPT ![e][i] =
                   [@ EXCEPT !.pc = "done",
                             !.err = IF ~ctx[e].gkey THEN "group key missing"
                                     ELSE "repeat interval missing"]]
    /\ UNCHANGED <<unit, cfg, rdb, alert, ctx, exec, metrics, starts, faults, hist>>

\* A resolved branch that does not look at what Exists answered: the alert is
\* emitted whether or not the key exists.
DedupExistsUnchecked(e, i) ==
    /\ task[e][i].pc = "dedup"
    /\ HasKeys(e)
    /\ alert[e].Resolved
    /\ \E err \in CallErrs(e) :
          LET t == [task[e][i] EXCEPT !.resolved = <<Hash>>, !.kvErr = err]
          IN  /\ task' = [task EXCEPT ![e][i] =
                             IF ~err THEN [t EXCEPT !.pc = "getcnt"] ELSE AfterDedup(t)]
              /\ faults' = Spend(e, err)
    /\ UNCHANGED <<unit, cfg, rdb, alert, ctx, exec, metrics, starts, hist>>

\* A resolved alert: the hash joins the resolved list, then Exists(sKey).
DedupExists(e, i) ==
    /\ task[e][i].pc = "dedup"
    /\ HasKeys(e)
    /\ alert[e].Resolved
    /\ \E err \in CallErrs(e) :
          LET t == [task[e][i] EXCEPT !.resolved = <<Hash>>, !.kvErr = err]
          IN  /\ task' = [task EXCEPT ![e][i] =
                             IF ~err /\ Exists(i) THEN [t EXCEPT !.pc = "getcnt"]
                             ELSE AfterDedup(t)]
              /\ faults' = Spend(e, err)
    /\ UNCHANGED <<unit, cfg, rdb, alert, ctx, exec, metrics, starts, hist>>

\* The key exists: Get(AlertSentPrefix + sKey) stamps SentCount unless it fails
\* (a counter that does not exist is redis.Nil, an error), and the alert is emitted.
DedupGetCount(e, i) ==
    /\ task[e][i].pc = "getcnt"
    /\ \E err \in CallErrs(e) :
          LET failed == err \/ rdb[i].sent = 0
              t == [task[e][i] EXCEPT !.out = <<e>>,
                                      !.count = IF failed THEN -1 ELSE rdb[i].sent,
                                      !.kvErr = @ \/ err]
          IN  /\ alert' = IF failed THEN alert
                          ELSE [alert EXCEPT ![e].SentCount = rdb[i].sent]
              /\ task' = [task EXCEPT ![e][i] = AfterDedup(t)]
              /\ faults' = Spend(e, err)
    /\ UNCHANGED <<unit, cfg, rdb, ctx, exec, metrics, starts, hist>>

\* A firing alert: Get(sKey); on an error (redis.Nil of a key that does not exist
\* included) the stage read is the alert's own.
DedupGet(e, i) ==
    /\ task[e][i].pc = "dedup"
    /\ HasKeys(e)
    /\ ~alert[e].Resolved
    /\ \E err \in CallErrs(e) :
          LET stage == IF err \/ ~Exists(i) THEN alert[e].Stage ELSE rdb[i].stage
          IN  /\ task' = [task EXCEPT ![e][i] =
                             [@ EXCEPT !.stage = stage, !.kvErr = err,
                                       !.found = ~err /\ Exists(i),
                                       !.pc = IF stage # "" /\ stage # alert[e].Stage
                                              THEN "del" ELSE "setnx"]]
              /\ faults' = Spend(e, err)
    /\ UNCHANGED <<unit, cfg, rdb, alert, ctx, exec, metrics, starts, hist>>

\* The stage read differs from the alert's: Del(sKey), its result not looked at.
DedupDel(e, i) ==
    /\ task[e][i].pc = "del"
    /\ \E err \in CallErrs(e) :
          /\ rdb' = IF err THEN rdb ELSE Del(i)
          /\ hist' = IF err \/ ~Exists(i) THEN hist
                      ELSE [hist EXCEPT ![i].delSince = TRUE]
          /\ task' = [task EXCEPT ![e][i] = [@ EXCEPT !.pc = "setnx", !.kvErr = @ \/ err]]
          /\ faults' = Spend(e, err)
    /\ UNCHANGED <<unit, cfg, alert, ctx, exec, metrics, starts>>

\* SetNX(sKey, a.Stage, repeatInterval): on an error the alert is skipped; when
\* the key was set the hash joins the firing list.
DedupSetNX(e, i) ==
    /\ task[e][i].pc = "setnx"
    /\ \E err \in CallErrs(e) :
          LET r == SetNX(i, alert[e].Stage, RepeatTicks)
              needsUpdate == ~err /\ r.ok
              t == [task[e][i] EXCEPT !.kvErr = @ \/ err]
          IN  /\ rdb' = IF err THEN rdb ELSE r.rdb
              /\ hist' = IF needsUpdate
                          THEN [hist EXCEPT ![i].sinceSet = 0, ![i].delSince = FALSE,
                                            ![i].fired = IF @ = "no" THEN "set" ELSE @]
                          ELSE hist
              /\ task' = [task EXCEPT ![e][i] =
                             IF needsUpdate
                             THEN [t EXCEPT !.firing = <<Hash>>, !.pc = "incr"]
                             ELSE AfterDedup(t)]
              /\ faults' = Spend(e, err)
    /\ UNCHANGED <<unit, cfg, alert, ctx, exec, metrics, starts>>

\* Incr(AlertSentPrefix + sKey) stamps SentCount unless it fails; the alert is
\* emitted either way.
DedupIncr(e, i) ==
    /\ task[e][i].pc = "incr"
    /\ \E err \in CallErrs(e) :
          LET r == Incr(i)
              t == [task[e][i] EXCEPT !.out = <<e>>, !.age = 0,
                                      !.count = IF err THEN -1 ELSE r.val,
                                      !.kvErr = @ \/ err]
          IN  /\ rdb' = IF err THEN rdb ELSE r.rdb
              /\ alert' = IF err THEN alert
                          ELSE [alert EXCEPT ![e].SentCount = r.val]
              /\ task' = [task EXCEPT ![e][i] = AfterDedup(t)]
              /\ faults' = Spend(e, err)
    /\ UNCHANGED <<unit, cfg, ctx, exec, metrics, starts, hist>>

\* -------------------------------------------------------------- RetryStage

\* A return on a done context that hands back the batch it was called with.
CanceledWithBatch(t) ==
    [t EXCEPT !.pc = "done", !.iErr = IF @ = "" THEN "context" ELSE @,
              !.err = "canceled"]

\* The return on a context that is done: a nil batch, and the last error of the
\* integration, or the context's own, wrapped.
Canceled(t) ==
    [t EXCEPT !.pc = "done", !.out = <<>>,
              !.iErr = IF @ = "" THEN "context" ELSE @,
              !.err = "canceled"]

\* A loop that gives up after its first attempt failed.
LoopHeadGivesUp(t, done) ==
    IF done THEN Canceled(t)
    ELSE IF t.calls > 0 THEN [t EXCEPT !.pc = "done", !.err = "gave up"]
         ELSE [t EXCEPT !.pc = "select"]

\* The head of the loop: the context is looked at first.
LoopHead(t, done) == IF done THEN Canceled(t) ELSE [t EXCEPT !.pc = "select"]

\* RetryStage.Exec after r.exec returned t: a return with an error counts as one
\* failed notification.
Returned(m, i, t) ==
    IF t.pc = "done" /\ t.err # ""
    THEN [m EXCEPT ![i].numTotalFailedNotifications = @ + 1] ELSE m

\* A filter that lets every alert through.
Unfiltered(alerts) == alerts

\* The alerts of a batch that are not resolved, in the order of the batch.
Unresolved(alerts) == SelectSeq(alerts, LAMBDA a : ~alert[a].Resolved)

\* The pre-filter of RetryStage.exec.  An integration that does not send
\* resolved alerts needs the FiringAlerts list: without one it fails, with an
\* empty one it returns the batch at once, and else it notifies the alerts that
\* are not resolved.  An integration that sends resolved alerts notifies the
\* batch.  Then the loop is entered.
PreFilter(i, t, done) ==
    IF ~SendResolved(i)
    THEN IF ~t.hasFiring
         THEN [t EXCEPT !.pc = "done", !.out = <<>>, !.err = "firing alerts missing"]
         ELSE IF Len(t.firing) = 0
              THEN [t EXCEPT !.pc = "done"]
              ELSE LoopHead([t EXCEPT !.sent = Unresolved(t.out)], done)
    ELSE LoopHead([t EXCEPT !.sent = t.out], done)

\* RetryStage.Exec: notifications_total counts the entry, then r.exec runs up to
\* the head of its loop.
RetryExec(e, i) ==
    /\ task[e][i].pc = "retry"
    /\ LET t == PreFilter(i, [task[e][i] EXCEPT !.inp = task[e][i].out], ctx[e].done)
       IN  /\ task' = [task EXCEPT ![e][i] = t]
           /\ metrics' = Returned([metrics EXCEPT ![i].numNotifications = @ + 1], i, t)
    /\ UNCHANGED <<unit, cfg, rdb, alert, ctx, exec, starts, faults, hist>>

\* The head of the loop after a call that failed with a retryable error.
RetryCheck(e, i) ==
    /\ task[e][i].pc = "check"
    /\ LET t == LoopHead(task[e][i], ctx[e].done)
       IN  /\ task' = [task EXCEPT ![e][i] = t]
           /\ metrics' = Returned(metrics, i, t)
    /\ UNCHANGED <<unit, cfg, rdb, alert, ctx, exec, starts, faults, hist>>

\* What the integration may answer to the next call of this execution: success,
\* an error with retry = false, or (while the configuration lets it) an error
\* with retry = true and one of the configuration's texts.
NotifyOutcomes(t) ==
    {"ok", "unrecoverable"} \cup (IF t.calls < cfg.retryable THEN cfg.texts ELSE {})

\* The alert is among those Notify is called with, and it is firing (resolved).
SentFiring(e, i) == Len(task[e][i].sent) > 0 /\ ~alert[e].Resolved
SentResolved(e, i) == Len(task[e][i].sent) > 0 /\ alert[e].Resolved

\* A warning for every failed attempt, whatever the error before it was.
WarnsAlways(t, res, done) == ~done

\* The warning of a failed attempt is logged while the context has no error, and
\* only if the text of the error is not that of the attempt before.
Warns(t, res, done) == ~done /\ (t.iErr = "" \/ res # t.iErr)

\* A loop that keeps the first error of the integration, not the last.
HandleKeepsFirst(t, res, done) ==
    CASE res = "ok" -> [t EXCEPT !.pc = "done"]
      [] res = "unrecoverable" -> [t EXCEPT !.pc = "done", !.err = "unrecoverable"]
      [] OTHER -> [t EXCEPT !.pc = "check", !.iErr = IF @ = "" THEN res ELSE @,
                            !.warns = IF Warns(t, res, done) THEN @ + 1 ELSE @]

\* The result of Notify as RetryStage.exec handles it, the call counted in t:
\* success returns the batch; an error with retry = false returns the batch and
\* the error, wrapped; an error with retry = true is logged, kept in iErr, and
\* the loop goes on.
Handle(t, res, done) ==
    CASE res = "ok" -> [t EXCEPT !.pc = "done"]
      [] res = "unrecoverable" -> [t EXCEPT !.pc = "done", !.err = "unrecoverable"]
      [] OTHER -> [t EXCEPT !.pc = "check", !.iErr = res,
                            !.warns = IF Warns(t, res, done) THEN @ + 1 ELSE @]

\* Requests counters that count a failed request as failed only.
RequestedOrFailed(m, i, res) ==
    IF res = "ok" THEN [m EXCEPT ![i].numNotificationRequestsTotal = @ + 1]
    ELSE [m EXCEPT ![i].numNotificationRequestsFailedTotal = @ + 1]

\* The requests counters after a Notify call that answered res.
Requested(m, i, res) ==
    [m EXCEPT ![i].numNotificationRequestsTotal = @ + 1,
              ![i].numNotificationRequestsFailedTotal = IF res = "ok" THEN @ ELSE @ + 1]

\* The select on the tick: Notify(sent...), which reads the alerts it is given.
\* The select takes this case whenever the tick is ready, also on a context that
\* became done after the head of the loop looked at it.
RetryNotify(e, i) ==
    /\ task[e][i].pc = "select"
    /\ \E res \in NotifyOutcomes(task[e][i]) :
          LET t == Handle([task[e][i] EXCEPT
                              !.calls = @ + 1, !.last = res,
                              !.errs = IF res = "ok" THEN @ ELSE Append(@, res),
                              !.late = IF ctx[e].done THEN @ + 1 ELSE @,
                              !.seen = IF Len(task[e][i].sent) = 0 THEN -1
                                       ELSE alert[e].SentCount],
                          res, ctx[e].done)
          IN  /\ task' = [task EXCEPT ![e][i] = t]
              /\ metrics' = Returned(Requested(metrics, i, res), i, t)
              /\ hist' = IF SentFiring(e, i) /\ res = "ok"
                          THEN [hist EXCEPT ![i].sinceFiring = 0, ![i].fired = "sent",
                                            ![i].delivered = @ + 1]
                          ELSE hist
    /\ UNCHANGED <<unit, cfg, rdb, alert, ctx, exec, starts, faults>>

\* The select on ctx.Done().
RetryCtxDone(e, i) ==
    /\ task[e][i].pc = "select"
    /\ ctx[e].done
    /\ LET t == Canceled(task[e][i])
       IN  /\ task' = [task EXCEPT ![e][i] = t]
           /\ metrics' = Returned(metrics, i, t)
    /\ UNCHANGED <<unit, cfg, rdb, alert, ctx, exec, starts, faults, hist>>

\* ------------------------------------------------------------- FanoutStage

\* Children whose only error is the cancellation do not count as failed.
FailedChildrenButCanceled(e) ==
    {i \in cfg.integrations : task[e][i].err \notin {"", "canceled"}}

\* The children of an execution that returned an error.
FailedChildren(e) == {i \in cfg.integrations : task[e][i].err # ""}

\* me.Add(err) of types.MultiError: the error joins the collection, also when
\* several goroutines add at the same time.
Add(me, i, err) == me \cup {<<i, err>>}

\* A multi-error that keeps the error of one child only.
MultiErrorOfOne(e) ==
    IF FailedChildren(e) = {} THEN {}
    ELSE LET i == CHOOSE j \in FailedChildren(e) : TRUE
         IN  Add({}, i, task[e][i].err)

\* The multi-error after every child returned: each child that failed added
\* its error, in its own goroutine.
MultiError(e) == UNION {Add({}, i, task[e][i].err) : i \in FailedChildren(e)}

\* The local `as` of FanoutStage.Exec: declared, never assigned, and returned.
as == <<>>

\* A return of the fan-out that clears the keys of a resolved alert, as a
\* ClearSKeyStage after it would.
JoinThenClear(e) ==
    /\ exec[e].st = "fanout"
    /\ \A i \in cfg.integrations : task[e][i].pc = "done"
    /\ exec' = [exec EXCEPT ![e] =
                   [st |-> "idle",
                    err |-> IF MultiError(e) # {} THEN "multi" ELSE "",
                    ret |-> as, me |-> MultiError(e)]]
    /\ rdb' = [i \in Integrations |->
                  IF alert[e].Resolved /\ i \in cfg.integrations
                  THEN [stage |-> NoKey, ttl |-> 0, sent |-> 0] ELSE rdb[i]]
    /\ task' = [task EXCEPT ![e] = [i \in Integrations |-> IdleTask]]
    /\ alert' = [alert EXCEPT ![e] = NoAlert]
    /\ ctx' = [ctx EXCEPT ![e] = NoCtx]
    /\ UNCHANGED <<unit, cfg, metrics, starts, faults, hist>>

\* wg.Wait() returns once every child returned; FanoutStage.Exec returns `as`
\* and the multi-error, or nil when it is empty.  The execution is over.
Join(e) ==
    /\ exec[e].st = "fanout"
    /\ \A i \in cfg.integrations : task[e][i].pc = "done"
    /\ exec' = [exec EXCEPT ![e] =
                   [st |-> "idle",
                    err |-> IF MultiError(e) # {} THEN "multi" ELSE "",
                    ret |-> as, me |-> MultiError(e)]]
    /\ task' = [task EXCEPT ![e] = [i \in Integrations |-> IdleTask]]
    /\ alert' = [alert EXCEPT ![e] = NoAlert]
    /\ ctx' = [ctx EXCEPT ![e] = NoCtx]
    /\ UNCHANGED <<unit, cfg, rdb, metrics, starts, faults, hist>>

\* ---------------------------------------------------------- specifications

Next ==
    \/ \E e \in Execs :
          CanStart(e) /\ \E a \in AlertInputs : \E c \in CtxInputs(e) : Start(e, a, c)
    \/ \E e \in Execs : Cancel(e)
    \/ Tick
    \/ \E e \in Execs : \E i \in Integrations : DedupMissing(e, i)
    \/ \E e \in Execs : \E i \in Integrations : DedupExists(e, i)
    \/ \E e \in Execs : \E i \in Integrations : DedupGetCount(e, i)
    \/ \E e \in Execs : \E i \in Integrations : DedupGet(e, i)
    \/ \E e \in Execs : \E i \in Integrations : DedupDel(e, i)
    \/ \E e \in Execs : \E i \in Integrations : DedupSetNX(e, i)
    \/ \E e \in Execs : \E i \in Integrations : DedupIncr(e, i)
    \/ \E e \in Execs : \E i \in Integrations : RetryExec(e, i)
    \/ \E e \in Execs : \E i \in Integrations : RetryCheck(e, i)
    \/ \E e \in Execs : \E i \in Integrations : RetryNotify(e, i)
    \/ \E e \in Execs : \E i \in Integrations : RetryCtxDone(e, i)
    \/ \E e \in Execs : Join(e)

Spec == Init /\ [][Next]_vars

\* ------------------------------------------------- a RetryStage on its own

\* The texts of the errors an integration returns with retry = true.
ErrTexts == {"timeout", "refused"}

\* A RetryStage per integration, executed by one caller at a time, on contexts
\* that may become done, with an integration that may ask for retries.
RetryConfig ==
    [Config(Integrations, {"e1"}, MaxRetryStarts, TRUE, 0, MaxRetries, FALSE)
        EXCEPT !.texts = ErrTexts]

\* The alerts exist before the stage is executed, each firing or resolved.
RetryInit ==
    /\ cfg = RetryConfig
    /\ rdb = [i \in Integrations |-> [stage |-> NoKey, ttl |-> 0, sent |-> 0]]
    /\ alert \in [Execs -> {a \in AlertInputs : a.Stage = ""}]
    /\ ctx = [e \in Execs |-> NoCtx]
    /\ exec = [e \in Execs |-> NoExec]
    /\ task = [e \in Execs |-> [i \in Integrations |-> IdleTask]]
    /\ metrics = [i \in Integrations |-> NoMetrics]
    /\ starts = cfg.starts
    /\ faults = cfg.faults
    /\ hist = [i \in Integrations |-> NoHist]
    /\ unit = NoCall

\* The batches the stage is called with: one or two alerts, in either order.
RetryBatches ==
    {<<a>> : a \in Execs} \cup ({<<a, b>> : a, b \in Execs} \ {<<a, a>> : a \in Execs})

\* The FiringAlerts the context may carry: none, an empty list, a list of one hash.
FiringInputs == {None, Some(<<>>), Some(<<Hash>>)}

\* A caller executes the RetryStage of integration i on a batch, with a context
\* that is not done.
RetryStart(e, i, alerts, firing) ==
    /\ CanStart(e)
    /\ starts' = starts - 1
    /\ exec' = [exec EXCEPT ![e] = [NoExec EXCEPT !.st = "retry"]]
    /\ task' = [task EXCEPT ![e][i] =
                   [IdleTask EXCEPT !.pc = "retry", !.out = alerts,
                                    !.firing = firing.v, !.hasFiring = firing.ok]]
    /\ UNCHANGED <<unit, cfg, rdb, alert, ctx, metrics, faults, hist>>

\* RetryStage.Exec returns to its caller.
RetryReturn(e, i) ==
    /\ exec[e].st = "retry"
    /\ task[e][i].pc = "done"
    /\ exec' = [exec EXCEPT ![e] =
                   [NoExec EXCEPT !.err = task[e][i].err, !.ret = task[e][i].out]]
    /\ task' = [task EXCEPT ![e][i] = IdleTask]
    /\ ctx' = [ctx EXCEPT ![e] = NoCtx]
    /\ UNCHANGED <<unit, cfg, rdb, alert, metrics, starts, faults, hist>>

RetryNext ==
    \/ \E e \in Execs : \E i \in Integrations :
          \E alerts \in RetryBatches : \E firing \in FiringInputs :
             RetryStart(e, i, alerts, firing)
    \/ \E e \in Execs : Cancel(e)
    \/ \E e \in Execs : \E i \in Integrations : RetryExec(e, i)
    \/ \E e \in Execs : \E i \in Integrations : RetryCheck(e, i)
    \/ \E e \in Execs : \E i \in Integrations : RetryNotify(e, i)
    \/ \E e \in Execs : \E i \in Integrations : RetryCtxDone(e, i)
    \/ \E e \in Execs : \E i \in Integrations : RetryReturn(e, i)

RetrySpec == RetryInit /\ [][RetryNext]_vars

\* The goroutine that executes the stage is scheduled, the backoff ticker
\* delivers its ticks and every Notify call returns: an execution that can take
\* a step of the stage takes one; which case the select takes is not constrained.
RetryFairness ==
    \A e \in Execs : \A i \in Integrations :
        /\ WF_vars(RetryExec(e, i))
        /\ WF_vars(RetryCheck(e, i))
        /\ WF_vars(RetryNotify(e, i) \/ RetryCtxDone(e, i))

RetryLive == RetrySpec /\ RetryFairness

\* ------------------------------------------------- stages on their own

\* The alerts and the batches a stage is called with when it is executed on
\* its own: no, one or two alerts, in either order.
UnitAlerts == {"a1", "a2"}
UnitBatches ==
    {<<>>} \cup {<<a>> : a \in UnitAlerts}
           \cup ({<<a, b>> : a, b \in UnitAlerts} \ {<<a, a>> : a \in UnitAlerts})

\* Any implementation of the Stage interface may stand in a MultiStage or a
\* RoutingStage.  The stages tried: one that returns its batch, one that
\* removes alert a1, one that returns no alerts, one that returns an error and
\* no alerts, one that returns an error and its batch (as the time stages do).
\* Each returns a context that records that it ran.
StageKinds == {"pass", "mute", "drop", "fail", "failkeep"}

\* The contexts of these calls: the receiver name, if any, and the names of the
\* stages that derived the context.
UnitCtx(receiver, seen) == [receiver |-> receiver, seen |-> seen]

\* s.Exec(ctx, l, alerts...) of such a stage: context, alerts and error ("" is
\* nil; a nil list and an empty one are both <<>>).
RunStage(s, c, alerts) ==
    LET d == [c EXCEPT !.seen = @ \cup {s.name}]
    IN  CASE s.kind = "pass" -> [ctx |-> d, alerts |-> alerts, err |-> ""]
          [] s.kind = "mute" ->
                [ctx |-> d, alerts |-> SelectSeq(alerts, LAMBDA a : a # "a1"), err |-> ""]
          [] s.kind = "drop" -> [ctx |-> d, alerts |-> <<>>, err |-> ""]
          [] s.kind = "fail" -> [ctx |-> d, alerts |-> <<>>, err |-> s.name]
          [] s.kind = "failkeep" -> [ctx |-> d, alerts |-> alerts, err |-> s.name]

\* The record of one call of a stage: what it was given.
CallOf(s, c, alerts) == [stage |-> s.name, ctx |-> c, alerts |-> alerts]

\* A MultiStage that looks at the batch after the stages only.
RECURSIVE MultiStageRunAll(_, _, _)
MultiStageRunAll(ms, c, alerts) ==
    IF ms = <<>> THEN [ctx |-> c, alerts |-> alerts, err |-> "", ran |-> <<>>]
    ELSE LET r == RunStage(Head(ms), c, alerts)
             call == CallOf(Head(ms), c, alerts)
         IN  IF r.err # ""
             THEN [ctx |-> r.ctx, alerts |-> <<>>, err |-> r.err, ran |-> <<call>>]
             ELSE LET rest == MultiStageRunAll(Tail(ms), r.ctx, r.alerts)
                  IN  [rest EXCEPT !.ran = <<call>> \o @]

\* A MultiStage that goes on after a stage failed and returns the last error.
RECURSIVE MultiStageRunOn(_, _, _)
MultiStageRunOn(ms, c, alerts) ==
    IF ms = <<>> THEN [ctx |-> c, alerts |-> alerts, err |-> "", ran |-> <<>>]
    ELSE IF Len(alerts) = 0 THEN [ctx |-> c, alerts |-> <<>>, err |-> "", ran |-> <<>>]
    ELSE LET r == RunStage(Head(ms), c, alerts)
             call == CallOf(Head(ms), c, alerts)
             rest == MultiStageRunOn(Tail(ms), r.ctx, r.alerts)
         IN  [rest EXCEPT !.ran = <<call>> \o @,
                          !.err = IF @ = "" THEN r.err ELSE @,
                          !.alerts = IF r.err # "" THEN <<>> ELSE @]

\* A MultiStage that hands back the list a failing stage returned.
RECURSIVE MultiStageRunKeeps(_, _, _)
MultiStageRunKeeps(ms, c, alerts) ==
    IF ms = <<>> THEN [ctx |-> c, alerts |-> alerts, err |-> "", ran |-> <<>>]
    ELSE IF Len(alerts) = 0 THEN [ctx |-> c, alerts |-> <<>>, err |-> "", ran |-> <<>>]
    ELSE LET r == RunStage(Head(ms), c, alerts)
             call == CallOf(Head(ms), c, alerts)
         IN  IF r.err # ""
             THEN [ctx |-> r.ctx, alerts |-> r.alerts, err |-> r.err, ran |-> <<call>>]
             ELSE LET rest == MultiStageRunKeeps(Tail(ms), r.ctx, r.alerts)
                  IN  [rest EXCEPT !.ran = <<call>> \o @]

\* MultiStage.Exec for any stages: before each stage the batch is tested and an
\* empty one ends the loop with (ctx, nil, nil); the stage gets the context and
\* the batch the stage before returned; an error ends the loop with (ctx, nil,
\* err).  ran lists the calls made.
RECURSIVE MultiStageRun(_, _, _)
MultiStageRun(ms, c, alerts) ==
    IF ms = <<>> THEN [ctx |-> c, alerts |-> alerts, err |-> "", ran |-> <<>>]
    ELSE IF Len(alerts) = 0 THEN [ctx |-> c, alerts |-> <<>>, err |-> "", ran |-> <<>>]
    ELSE LET r == RunStage(Head(ms), c, alerts)
             call == CallOf(Head(ms), c, alerts)
         IN  IF r.err # ""
             THEN [ctx |-> r.ctx, alerts |-> <<>>, err |-> r.err, ran |-> <<call>>]
             ELSE LET rest == MultiStageRun(Tail(ms), r.ctx, r.alerts)
                  IN  [rest EXCEPT !.ran = <<call>> \o @]

\* A RoutingStage that falls back on some stage when the receiver has none.
RoutingStageRunAny(rs, c, alerts) ==
    IF ~c.receiver.ok
    THEN [ctx |-> c, alerts |-> <<>>, err |-> "receiver missing", ran |-> <<>>]
    ELSE LET s == IF c.receiver.v \in DOMAIN rs THEN rs[c.receiver.v]
                  ELSE rs[CHOOSE n \in DOMAIN rs : TRUE]
             r == RunStage(s, c, alerts)
         IN  [ctx |-> r.ctx, alerts |-> r.alerts, err |-> r.err,
              ran |-> <<CallOf(s, c, alerts)>>]

\* RoutingStage.Exec: the stage the map holds for the receiver name of the
\* context is executed and its result returned; without a name, or without a
\* stage for it, an error is.
RoutingStageRun(rs, c, alerts) ==
    IF ~c.receiver.ok
    THEN [ctx |-> c, alerts |-> <<>>, err |-> "receiver missing", ran |-> <<>>]
    ELSE IF c.receiver.v \notin DOMAIN rs
    THEN [ctx |-> c, alerts |-> <<>>, err |-> "stage for receiver missing", ran |-> <<>>]
    ELSE LET s == rs[c.receiver.v]
             r == RunStage(s, c, alerts)
         IN  [ctx |-> r.ctx, alerts |-> r.alerts, err |-> r.err,
              ran |-> <<CallOf(s, c, alerts)>>]

\* The longest MultiStage tried.
MaxStages == 3

\* The names of the stages of a MultiStage, by place.
StageNames == <<"s1", "s2", "s3", "s4">>

\* The MultiStages tried: up to MaxStages stages of any kind, named by place.
StageLists ==
    UNION {{[k \in 1..n |-> [name |-> StageNames[k], kind |-> kinds[k]]] :
               kinds \in [1..n -> StageKinds]} : n \in 0..MaxStages}

\* The receivers of the RoutingStages tried, and a name none of them has.
Receivers == {"r1", "r2"}
NoReceiver == [ok |-> FALSE, v |-> ""]
ReceiverInputs == {NoReceiver} \cup {Some(n) : n \in Receivers \cup {"r3"}}

\* The RoutingStages tried: a stage of any kind for one or both of the receivers.
RoutingStages ==
    UNION {{[n \in D |-> [name |-> n, kind |-> kinds[n]]] : kinds \in [D -> StageKinds]} :
              D \in SUBSET Receivers \ {{}}}

\* The record of a stage executed on its own: which, on what, with what result.
Call(op, in, ret) == [op |-> op, in |-> in, ret |-> ret]

\* MultiStage.Exec is called.
CallMultiStage ==
    unit = NoCall /\ \E ms \in StageLists : \E alerts \in UnitBatches : \E tag \in SUBSET {"caller"} :
        LET c == UnitCtx(NoReceiver, tag)
        IN  /\ unit' = Call("MultiStage", [ms |-> ms, ctx |-> c, alerts |-> alerts],
                    MultiStageRun(ms, c, alerts))
            /\ UNCHANGED <<cfg, rdb, alert, ctx, exec, task, metrics, starts, faults, hist>>

\* RoutingStage.Exec is called.
CallRoutingStage ==
    unit = NoCall /\ \E rs \in RoutingStages : \E alerts \in UnitBatches : \E n \in ReceiverInputs :
        LET c == UnitCtx(n, {})
        IN  /\ unit' = Call("RoutingStage", [rs |-> rs, ctx |-> c, alerts |-> alerts],
                    RoutingStageRun(rs, c, alerts))
            /\ UNCHANGED <<cfg, rdb, alert, ctx, exec, task, metrics, starts, faults, hist>>

\* MuteStage.Exec is called, with a muter that mutes any of the alerts.
CallMuteStage ==
    unit = NoCall /\ \E muter \in SUBSET UnitAlerts : \E alerts \in UnitBatches :
        /\ unit' = Call("MuteStage", [muter |-> muter, alerts |-> alerts],
                MuteStageExec(muter, alerts))
        /\ UNCHANGED <<cfg, rdb, alert, ctx, exec, task, metrics, starts, faults, hist>>

\* The contexts of the time stages: any lists of names, any Now, each present or not.
TimeCtxInputs ==
    [active : {None} \cup {Some(l) : l \in NameLists},
     mute : {None} \cup {Some(l) : l \in NameLists},
     now : {NoTime} \cup {Some(n) : n \in NowValues}]

\* TimeActiveStage.Exec is called.
CallTimeActiveStage ==
    unit = NoCall /\ \E c \in TimeCtxInputs : \E alerts \in UnitBatches :
        /\ unit' = Call("TimeActiveStage", [ctx |-> c, alerts |-> alerts],
                TimeActiveStageExec(c, alerts))
        /\ UNCHANGED <<cfg, rdb, alert, ctx, exec, task, metrics, starts, faults, hist>>

\* TimeMuteStage.Exec is called.
CallTimeMuteStage ==
    unit = NoCall /\ \E c \in TimeCtxInputs : \E alerts \in UnitBatches :
        /\ unit' = Call("TimeMuteStage", [ctx |-> c, alerts |-> alerts],
                TimeMuteStageExec(c, alerts))
        /\ UNCHANGED <<cfg, rdb, alert, ctx, exec, task, metrics, starts, faults, hist>>

\* ---- DedupStage on its own: one call, on a batch of up to two alerts

\* The store calls DedupStage.Exec makes for an alert: Exists and the Get of the
\* counter for a resolved one; the Get of the stage, Del, SetNX and Incr for a
\* firing one.
KvOps == {"Exists", "GetCount", "Get", "Del", "SetNX", "Incr"}

\* The store call that returns an error during the call, if any; in an outage
\* every call does.
NoFault == [a |-> "", op |-> ""]
Outage == [a |-> "*", op |-> "*"]
FaultInputs == {NoFault, Outage} \cup [a : UnitAlerts, op : KvOps]

\* The batches: the alerts a1, a2 in this order, each firing or resolved, at
\* any Stage, with the SentCount it carries (none, or one that an earlier pass
\* through a DedupStage left on it).  Two alerts have two hashes, hence two
\* state keys.
DedupBatches ==
    UNION {{[k \in 1..n |-> [id |-> <<"a1", "a2">>[k], Resolved |-> p[k].Resolved,
                             Stage |-> p[k].Stage, SentCount |-> p[k].SentCount]] :
               p \in [1..n -> [Resolved : BOOLEAN, Stage : Stages,
                               SentCount : {0, 2}]]} : n \in 0..2}

\* The store before the call: per alert, the value at its state key and its
\* sent counter (0: none).  The keys of alerts outside the batch do not matter.
KvInputs(alerts) ==
    {kv \in [UnitAlerts -> [stage : Stages \cup {NoKey}, sent : 0..1]] :
        \A a \in UnitAlerts :
            (\A k \in 1..Len(alerts) : alerts[k].id # a) => kv[a] = [stage |-> NoKey, sent |-> 0]}

\* The contexts: GroupKey and RepeatInterval, each present or not.
DedupCtxInputs == [gkey : BOOLEAN, repeat : BOOLEAN]

\* The locals of DedupStage.Exec before its loop; kv is the store, count the
\* SentCount of the alert objects (as they come in; 0 for an alert that is not
\* in the batch), ops the store calls made.
DedupStart(kv, alerts) ==
    [kv |-> kv, out |-> <<>>, firing |-> <<>>, resolved |-> <<>>, ops |-> <<>>,
     count |-> [a \in UnitAlerts |->
                  IF \E k \in 1..Len(alerts) : alerts[k].id = a
                  THEN (CHOOSE x \in {alerts[k] : k \in 1..Len(alerts)} : x.id = a).SentCount
                  ELSE 0]]

\* A loop body that skips the alert on the error of any store call.
DedupOneStrict(a, bad, s) ==
    LET fails(op) == bad = Outage \/ bad = [a |-> a.id, op |-> op]
        key == s.kv[a.id]
    IN  IF a.Resolved
        THEN LET s1 == [s EXCEPT !.resolved = Append(@, a.id),
                                 !.ops = Append(@, <<a.id, "Exists">>)]
             IN  IF fails("Exists") \/ key.stage = NoKey THEN s1
                 ELSE IF fails("GetCount")
                 THEN [s1 EXCEPT !.ops = Append(@, <<a.id, "GetCount">>)]
                 ELSE [s1 EXCEPT !.ops = Append(@, <<a.id, "GetCount">>),
                                 !.count[a.id] = IF key.sent > 0 THEN key.sent ELSE @,
                                 !.out = Append(@, a.id)]
        ELSE LET stage == IF key.stage # NoKey THEN key.stage ELSE a.Stage
                 del == stage # "" /\ stage # a.Stage
                 kv1 == IF del /\ ~fails("Del")
                        THEN [s.kv EXCEPT ![a.id].stage = NoKey] ELSE s.kv
                 ops1 == s.ops \o <<<<a.id, "Get">>>>
                            \o (IF del THEN <<<<a.id, "Del">>>> ELSE <<>>)
                            \o <<<<a.id, "SetNX">>>>
                 needsUpdate == ~fails("SetNX") /\ kv1[a.id].stage = NoKey
             IN  IF fails("Get") THEN [s EXCEPT !.ops = Append(@, <<a.id, "Get">>)]
                 ELSE IF ~needsUpdate THEN [s EXCEPT !.kv = kv1, !.ops = ops1]
                 ELSE IF fails("Incr")
                 THEN [s EXCEPT !.kv = [kv1 EXCEPT ![a.id].stage = a.Stage],
                                !.ops = Append(ops1, <<a.id, "Incr">>),
                                !.firing = Append(@, a.id)]
                 ELSE [s EXCEPT !.kv = [kv1 EXCEPT ![a.id].stage = a.Stage,
                                                   ![a.id].sent = @ + 1],
                                !.ops = Append(ops1, <<a.id, "Incr">>),
                                !.firing = Append(@, a.id),
                                !.count[a.id] = key.sent + 1,
                                !.out = Append(@, a.id)]

\* A loop body that takes every store call for answered.
DedupOneBestEffort(a, bad, s) == DedupOneStrict(a, NoFault, s)

\* The loop body of DedupStage.Exec for alert a.  A resolved alert: its hash
\* joins the resolved list; Exists, and on its error the alert is skipped; when
\* the key exists, the counter is read into SentCount unless the Get fails (a
\* counter that does not exist is an error too) and the alert is emitted.  A
\* firing alert: Get of the stage, the alert's own on an error or when there is
\* no key; Del when the stage differs, its result not looked at; SetNX, and on
\* its error the alert is skipped; when the key was set, the hash joins the
\* firing list, Incr is read into SentCount unless it fails, and the alert is
\* emitted.  A call that fails leaves the store as it is.
DedupOne(a, bad, s) ==
    LET fails(op) == bad = Outage \/ bad = [a |-> a.id, op |-> op]
        key == s.kv[a.id]
    IN  IF a.Resolved
        THEN LET s1 == [s EXCEPT !.resolved = Append(@, a.id),
                                 !.ops = Append(@, <<a.id, "Exists">>)]
             IN  IF fails("Exists") \/ key.stage = NoKey THEN s1
                 ELSE [s1 EXCEPT !.ops = Append(@, <<a.id, "GetCount">>),
                                 !.count[a.id] = IF ~fails("GetCount") /\ key.sent > 0
                                                 THEN key.sent ELSE @,
                                 !.out = Append(@, a.id)]
        ELSE LET stage == IF ~fails("Get") /\ key.stage # NoKey THEN key.stage ELSE a.Stage
                 del == stage # "" /\ stage # a.Stage
                 kv1 == IF del /\ ~fails("Del")
                        THEN [s.kv EXCEPT ![a.id].stage = NoKey] ELSE s.kv
                 ops1 == s.ops \o <<<<a.id, "Get">>>>
                            \o (IF del THEN <<<<a.id, "Del">>>> ELSE <<>>)
                            \o <<<<a.id, "SetNX">>>>
                 needsUpdate == ~fails("SetNX") /\ kv1[a.id].stage = NoKey
             IN  IF ~needsUpdate THEN [s EXCEPT !.kv = kv1, !.ops = ops1]
                 ELSE [s EXCEPT !.kv = [kv1 EXCEPT ![a.id].stage = a.Stage,
                                                   ![a.id].sent = IF fails("Incr") THEN @ ELSE @ + 1],
                                !.ops = Append(ops1, <<a.id, "Incr">>),
                                !.firing = Append(@, a.id),
                                !.count[a.id] = IF fails("Incr") THEN @ ELSE key.sent + 1,
                                !.out = Append(@, a.id)]

\* The loop of DedupStage.Exec over the batch, in order.
RECURSIVE DedupLoop(_, _, _)
DedupLoop(alerts, bad, s) ==
    IF alerts = <<>> THEN s
    ELSE DedupLoop(Tail(alerts), bad, DedupOne(Head(alerts), bad, s))

\* DedupStage.Exec: an error, before anything else, when the context has no
\* GroupKey or no RepeatInterval; otherwise the loop, and its needsUpdateAlerts
\* without an error.
DedupStageExec(c, kv, bad, alerts) ==
    IF ~c.gkey THEN [DedupStart(kv, alerts) EXCEPT !.out = <<>>] @@ [err |-> "group key missing"]
    ELSE IF ~c.repeat
    THEN [DedupStart(kv, alerts) EXCEPT !.out = <<>>] @@ [err |-> "repeat interval missing"]
    ELSE DedupLoop(alerts, bad, DedupStart(kv, alerts)) @@ [err |-> ""]

\* The MultiStage createReceiverStage builds for an integration, DedupStage and
\* then RetryStage, run as MultiStage.Exec runs a list: a stage is executed
\* when the batch before it is not empty and no stage before it returned an
\* error.  ran names the stages executed, dedup is what DedupStage returned (its
\* locals before the loop when it was not executed), notify the batch RetryStage
\* is executed on.
ReceiverStageExec(c, kv, bad, alerts) ==
    IF Len(alerts) = 0
    THEN [ran |-> <<>>, dedup |-> DedupStart(kv, alerts) @@ [err |-> ""], notify |-> <<>>]
    ELSE LET d == DedupStageExec(c, kv, bad, alerts)
         IN  IF d.err # "" \/ Len(d.out) = 0
             THEN [ran |-> <<"DedupStage">>, dedup |-> d, notify |-> <<>>]
             ELSE [ran |-> <<"DedupStage", "RetryStage">>, dedup |-> d, notify |-> d.out]

\* The MultiStage of an integration is called.
CallReceiverStage ==
    unit = NoCall /\ \E alerts \in DedupBatches : \E c \in DedupCtxInputs : \E bad \in FaultInputs :
        \E kv \in KvInputs(alerts) :
            /\ unit' = Call("ReceiverStage", [ctx |-> c, kv |-> kv, bad |-> bad, alerts |-> alerts],
                    ReceiverStageExec(c, kv, bad, alerts))
            /\ UNCHANGED <<cfg, rdb, alert, ctx, exec, task, metrics, starts, faults, hist>>

\* DedupStage.Exec is called.
CallDedupStage ==
    unit = NoCall /\ \E alerts \in DedupBatches : \E c \in DedupCtxInputs : \E bad \in FaultInputs :
        \E kv \in KvInputs(alerts) :
            /\ unit' = Call("DedupStage", [ctx |-> c, kv |-> kv, bad |-> bad, alerts |-> alerts],
                    DedupStageExec(c, kv, bad, alerts))
            /\ UNCHANGED <<cfg, rdb, alert, ctx, exec, task, metrics, starts, faults, hist>>

\* ---- the keys of the store, and ClearSKeyStage on its own

\* Strings are sequences of characters here, "" the empty one, + is \o.
AlertSentPrefix == <<"a", "l", "e", "r", "t", "-", "s", "e", "n", "t", "-">>

\* %d of a non-negative integer: its decimal digits.
RECURSIVE FormatInt(_)
FormatInt(n) ==
    LET digit(d) == <<<<"0", "1", "2", "3", "4", "5", "6", "7", "8", "9">>[d + 1]>>
    IN  IF n < 10 THEN digit(n) ELSE FormatInt(n \div 10) \o digit(n % 10)

\* A receiver key that leaves the index out.
receiverKeyWithoutIdx(r) == r.GroupName \o <<":">> \o r.Integration

\* receiverKey: fmt.Sprintf("%s:%s:%d", r.GroupName, r.Integration, r.Idx).
receiverKey(r) ==
    r.GroupName \o <<":">> \o r.Integration \o <<":">> \o FormatInt(r.Idx)

\* stateKey: fmt.Sprintf("%s:%s:%d", k, receiverKey(r), hash).
stateKey(k, r, hash) == k \o <<":">> \o receiverKey(r) \o <<":">> \o FormatInt(hash)

\* The tuples tried: group keys and receiver names with and without the
\* separator, a group key that begins like a counter key; two integrations, two
\* indexes, two hashes.
KeyTuples ==
    [k : {<<"g">>, <<"g", ":", "r">>, AlertSentPrefix \o <<"g">>},
     r : [GroupName : {<<"r">>, <<"r", ":", "r">>}, Integration : {<<"w">>, <<"e">>},
          Idx : 0..1],
     hash : {7, 12}]

\* The state key and the counter key of a tuple.
KeysOf(t) ==
    LET sKey == stateKey(t.k, t.r, t.hash)
    IN  [sKey |-> sKey, sent |-> AlertSentPrefix \o sKey]

\* stateKey is called.
CallStateKey ==
    unit = NoCall /\ \E t \in KeyTuples :
        /\ unit' = Call("stateKey", t, KeysOf(t))
        /\ UNCHANGED <<cfg, rdb, alert, ctx, exec, task, metrics, starts, faults, hist>>

\* make([]string, n): n empty strings.
Make(n) == [k \in 1..n |-> <<>>]

\* The loop over the hashes: each appends its state key and its counter key.
RECURSIVE AppendKeys(_, _, _, _)
AppendKeys(stateKeys, gkey, recv, hashes) ==
    IF hashes = <<>> THEN stateKeys
    ELSE LET sKey == stateKey(gkey, recv, Head(hashes))
         IN  AppendKeys(stateKeys \o <<sKey, AlertSentPrefix \o sKey>>, gkey, recv,
                        Tail(hashes))

\* The list built for a hash list: made with the length of the hash list, then
\* appended to.
StateKeys(gkey, recv, hashes) == AppendKeys(Make(Len(hashes)), gkey, recv, hashes)

\* ClearSKeyStage.Exec: an error and no alerts without a GroupKey; the batch and
\* nothing else without a RuleUID; else SAdd of the keys of a non-empty firing
\* list, Del and SRem of the keys of a non-empty resolved list, and the batch.
\* The errors of the store calls are logged and nothing more, so the result
\* is the same whether the store answers or not.  A store call is recorded with
\* its command, the set it works on (none for Del) and the keys passed.
ClearSKeyStageExec(recv, c, alerts) ==
    IF ~c.gkey.ok THEN [alerts |-> <<>>, err |-> "group key missing", ops |-> <<>>]
    ELSE IF ~c.rule.ok THEN [alerts |-> alerts, err |-> "", ops |-> <<>>]
    ELSE LET added ==
                 IF c.firing.ok /\ Len(c.firing.v) > 0
                 THEN <<[op |-> "SAdd", set |-> c.rule.v,
                         keys |-> StateKeys(c.gkey.v, recv, c.firing.v)]>>
                 ELSE <<>>
             removed ==
                 IF c.resolved.ok /\ Len(c.resolved.v) > 0
                 THEN LET stateKeys == StateKeys(c.gkey.v, recv, c.resolved.v)
                      IN  <<[op |-> "Del", set |-> <<>>, keys |-> stateKeys],
                            [op |-> "SRem", set |-> c.rule.v, keys |-> stateKeys]>>
                 ELSE <<>>
         IN  [alerts |-> alerts, err |-> "", ops |-> added \o removed]

\* The hash lists a context may carry: up to two hashes, in any order.
HashLists == UNION {[1..n -> {7, 12}] : n \in 0..2}

\* The contexts of ClearSKeyStage: GroupKey, RuleUID, FiringAlerts and
\* ResolvedAlerts, each present or not.
ClearCtxInputs ==
    [gkey : {None, Some(<<"g">>)}, rule : {None, Some(<<"u">>)},
     firing : {None} \cup {Some(l) : l \in HashLists},
     resolved : {None} \cup {Some(l) : l \in HashLists}]

\* The receiver of the stage that is called.
ClearRecv == [GroupName |-> <<"r">>, Integration |-> <<"w">>, Idx |-> 0]

\* ClearSKeyStage.Exec is called.
CallClearSKeyStage ==
    unit = NoCall /\ \E c \in ClearCtxInputs : \E alerts \in UnitBatches :
        /\ unit' = Call("ClearSKeyStage", [ctx |-> c, alerts |-> alerts],
                ClearSKeyStageExec(ClearRecv, c, alerts))
        /\ UNCHANGED <<cfg, rdb, alert, ctx, exec, task, metrics, starts, faults, hist>>

StageNext ==
    \/ CallMultiStage
    \/ CallRoutingStage
    \/ CallMuteStage
    \/ CallTimeActiveStage
    \/ CallTimeMuteStage
    \/ CallDedupStage
    \/ CallReceiverStage
    \/ CallClearSKeyStage
    \/ CallStateKey

\* No pipeline runs; one stage is called, once, on inputs of its own.
StageInit == Init /\ cfg.times

StageSpec == StageInit /\ [][StageNext]_vars

\* -------------------------------------------------------------- properties

\* A FanoutStage child that made at least one Notify call.
Called(e, i) == task[e][i].calls > 0

\* C1: of the executions that run DedupStage concurrently on the same firing
\* alert (same Stage, same state key) within one TTL of the key, exactly one
\* sets the key and goes on to increment the counter and emit the alert: no two
\* of them are, at the same time, between their successful SetNX and their Incr
\* with both keys set less than a repeat interval ago.
C1_ExactlyOneEmits ==
    \A i \in Integrations : \A e1, e2 \in Execs :
        (/\ e1 # e2
         /\ task[e1][i].pc = "incr" /\ task[e2][i].pc = "incr"
         /\ ~alert[e1].Resolved /\ ~alert[e2].Resolved
         /\ alert[e1].Stage = alert[e2].Stage)
        => (task[e1][i].age >= RepeatTicks \/ task[e2][i].age >= RepeatTicks)

\* C1, the case of a store that holds no key (or one of the same stage): as long
\* as no Del deleted the key since it was last set, no two concurrent executions
\* are both between SetNX and Incr within one TTL.
C1_OneEmitsWithoutDel ==
    \A i \in Integrations : \A e1, e2 \in Execs :
        (/\ e1 # e2
         /\ task[e1][i].pc = "incr" /\ task[e2][i].pc = "incr"
         /\ ~hist[i].delSince /\ ~task[e1][i].found /\ ~task[e2][i].found)
        => (task[e1][i].age >= RepeatTicks \/ task[e2][i].age >= RepeatTicks)

\* A successful Notify call of execution e to integration i.
NotifyOk(e, i) ==
    /\ task[e][i].pc = "select"
    /\ task'[e][i].pc = "done"
    /\ task'[e][i].calls = task[e][i].calls + 1
    /\ task'[e][i].err = ""

\* A SetNX of execution e that set the state key of integration i.
SetNXOk(e, i) == task[e][i].pc = "setnx" /\ task'[e][i].pc = "incr"

\* C2 as stated: an integration is successfully invoked with the alert firing
\* only when its last such invocation lies a repeat interval or more back.
C2_OneFiringCallPerWindow ==
    [][\A e \in Execs : \A i \in Integrations :
          (NotifyOk(e, i) /\ SentFiring(e, i)) => hist[i].sinceFiring >= RepeatTicks]_vars

\* C2, amended: the state key (whose creation is what admits a firing delivery)
\* is set by SetNX only when it was last set a repeat interval or more ago, or
\* when a Del (a stage transition) deleted it since.
C2_SetOncePerWindowUnlessDeleted ==
    [][\A e \in Execs : \A i \in Integrations :
          SetNXOk(e, i) => (hist[i].sinceSet >= RepeatTicks \/ hist[i].delSince)]_vars

\* C2: a key is set again, by an execution that found none, after the counter
\* shows an earlier delivery.
C2_SetAgainAfterExpiry ==
    \E e \in Execs : \E i \in Integrations :
        /\ task[e][i].pc = "incr"
        /\ ~task[e][i].found
        /\ hist[i].sinceSet = 0
        /\ rdb[i].sent >= 1

\* The name is in the interval table and one of its windows contains now.
Contains(name, now) ==
    /\ name \in KnownNames
    /\ \E k \in 1..Len(Times[name]) : now \in Times[name][k]

\* Now lies in one of the intervals the list names.
InListed(list, now) ==
    list.ok /\ now.ok /\ \E k \in 1..Len(list.v) : Contains(list.v[k], now.v)

\* The eligibility of C3: neither muter mutes the alert, Now lies in a listed
\* active interval or none is listed, and Now lies in no listed mute interval.
Eligible(e, c) ==
    /\ e \notin c.inhibited
    /\ e \notin c.silenced
    /\ (~c.active.ok \/ Len(c.active.v) = 0 \/ InListed(c.active, c.now))
    /\ ~InListed(c.mute, c.now)

\* A name the interval table does not hold is listed before any interval that
\* contains now (the lookup stops at the first listed interval that does).
UnknownFirst(names, now) ==
    \E k \in 1..Len(names) :
        /\ names[k] \notin KnownNames
        /\ \A j \in 1..(k - 1) : ~Contains(names[j], now)

\* A time stage fails: it needs Now and the context has none, or it looks up a
\* name the interval table does not hold.
ActiveFails(c) ==
    /\ c.active.ok /\ Len(c.active.v) > 0
    /\ (~c.now.ok \/ UnknownFirst(c.active.v, c.now.v))
MuteFails(c) ==
    /\ c.mute.ok
    /\ (~c.now.ok \/ UnknownFirst(c.mute.v, c.now.v))

\* C3 as stated: an execution arrives at the fan-out iff the alert is eligible.
C3_FanoutIffEligible ==
    \A e \in Execs :
        /\ exec[e].st = "fanout" => Eligible(e, ctx[e])
        /\ exec[e].st = "stopped" => ~Eligible(e, ctx[e])

\* C3, amended: an execution arrives at the fan-out iff the alert is eligible
\* and no time stage fails; and for an alert the silencer mutes no FanoutStage
\* child runs: no store call, no Notify call, notifications_total as it was.
C3_FanoutIffEligibleAndNoFailure ==
    \A e \in Execs :
        /\ exec[e].st = "fanout" =>
              Eligible(e, ctx[e]) /\ ~ActiveFails(ctx[e]) /\ ~MuteFails(ctx[e])
        /\ exec[e].st = "stopped" =>
              ~Eligible(e, ctx[e]) \/ ActiveFails(ctx[e]) \/ MuteFails(ctx[e])
        /\ e \in ctx[e].silenced =>
              /\ exec[e].st = "stopped"
              /\ \A i \in Integrations : task[e][i] = IdleTask

\* C3: an execution arrived at the fan-out under a context that lists active and
\* mute intervals.
C3_FanoutWithIntervals ==
    \E e \in Execs :
        /\ exec[e].st = "fanout"
        /\ ctx[e].active.ok /\ Len(ctx[e].active.v) > 0
        /\ ctx[e].mute.ok /\ Len(ctx[e].mute.v) > 0

\* A step of the FanoutStage child (e, i) out of position p.
StepFrom(e, i, p) == task[e][i].pc = p /\ task'[e][i].pc # p

\* No store call of the DedupStage execution has failed, the one of this step included.
NoKvErr(e, i) == ~task[e][i].kvErr /\ ~task'[e][i].kvErr

\* C4: first firing delivery.  An execution that found no state key and ran
\* DedupStage alone sets the key to the alert's Stage with the repeat interval
\* as TTL and puts the hash in the firing list; its Incr on a counter that does
\* not exist makes the counter 1, stamps SentCount = 1 and emits the alert; and
\* a child that returned without error and without a failed call made exactly
\* one Notify call.
C4_FirstFiringDelivery ==
    /\ [][\A e \in Execs : \A i \in Integrations :
            /\ (/\ StepFrom(e, i, "setnx") /\ NoKvErr(e, i)
                /\ ~task[e][i].found /\ task[e][i].solo)
               => /\ SetNXOk(e, i)
                  /\ rdb'[i].stage = alert[e].Stage
                  /\ rdb'[i].ttl = RepeatTicks
                  /\ task'[e][i].firing = <<Hash>>
            /\ (StepFrom(e, i, "incr") /\ NoKvErr(e, i) /\ rdb[i].sent = 0)
               => /\ rdb'[i].sent = 1
                  /\ alert'[e].SentCount = 1
                  /\ task'[e][i].out = <<e>>
                  /\ task'[e][i].pc = "retry"]_vars
    /\ [](\A e \in Execs : \A i \in Integrations :
            (/\ task[e][i].pc = "done" /\ task[e][i].firing = <<Hash>>
             /\ task[e][i].err = "" /\ task[e][i].iErr = "")
            => task[e][i].calls = 1)

\* C4: a receiver with one integration delivered a firing alert for the first
\* time: key and counter are fresh, one call was made.
C4_FirstDelivered ==
    \E e \in Execs : \E i \in Integrations :
        /\ cfg.integrations = {i}
        /\ task[e][i].pc = "done" /\ task[e][i].err = ""
        /\ ~task[e][i].found /\ task[e][i].firing = <<Hash>>
        /\ task[e][i].count = 1 /\ task[e][i].calls = 1 /\ task[e][i].seen = 1
        /\ alert[e].SentCount = 1
        /\ rdb[i] = [stage |-> alert[e].Stage, ttl |-> RepeatTicks, sent |-> 1]

\* C5: duplicate within the window.  A SetNX of an execution that read the
\* alert's own Stage at the key, made while the key still exists, changes
\* nothing in the store and ends the child at once: empty batch, empty firing
\* list, no Notify call.
C5_DuplicateDropped ==
    [][\A e \in Execs : \A i \in Integrations :
          (/\ StepFrom(e, i, "setnx") /\ NoKvErr(e, i)
           /\ task[e][i].found /\ task[e][i].stage = alert[e].Stage
           /\ rdb[i].stage # NoKey)
          => /\ rdb' = rdb
             /\ task'[e][i].pc = "done"
             /\ task'[e][i].out = <<>>
             /\ task'[e][i].firing = <<>>
             /\ task'[e][i].calls = 0]_vars

\* C5: a second execution dropped the alert; key and counter are those the
\* first one left.
C5_Dropped ==
    \E e \in Execs : \E i \in Integrations :
        /\ task[e][i].pc = "done" /\ ~alert[e].Resolved
        /\ task[e][i].found /\ task[e][i].stage = alert[e].Stage
        /\ task[e][i].out = <<>> /\ task[e][i].calls = 0
        /\ rdb[i].stage = alert[e].Stage /\ rdb[i].sent = 1

\* The execution read a stage at the key that is non-empty and not the alert's.
Transition(e, i) ==
    /\ task[e][i].found
    /\ task[e][i].stage # ""
    /\ task[e][i].stage # alert[e].Stage

\* C6: stage transition.  A Get that reads a non-empty stage other than the
\* alert's is followed by a Del, which removes the key; the SetNX of such an
\* execution, run alone, sets the key to the new Stage with a full TTL; and the
\* Incr adds one to the counter's value and emits the alert.
C6_StageTransition ==
    [][\A e \in Execs : \A i \in Integrations :
          /\ (/\ StepFrom(e, i, "dedup") /\ NoKvErr(e, i) /\ ~alert[e].Resolved
              /\ rdb[i].stage \notin {NoKey, "", alert[e].Stage})
             => task'[e][i].pc = "del"
          /\ (StepFrom(e, i, "del") /\ NoKvErr(e, i))
             => rdb'[i].stage = NoKey /\ task'[e][i].pc = "setnx"
          /\ (/\ StepFrom(e, i, "setnx") /\ NoKvErr(e, i)
              /\ Transition(e, i) /\ task[e][i].solo)
             => /\ SetNXOk(e, i)
                /\ rdb'[i].stage = alert[e].Stage
                /\ rdb'[i].ttl = RepeatTicks
          /\ (StepFrom(e, i, "incr") /\ NoKvErr(e, i))
             => /\ rdb'[i].sent = rdb[i].sent + 1
                /\ task'[e][i].count = rdb[i].sent + 1
                /\ task'[e][i].out = <<e>>
                /\ task'[e][i].pc = "retry"]_vars

\* C6: an execution went through a stage transition inside the window of an
\* earlier delivery: the key holds the new Stage, the counter went from 1 to 2.
C6_Transitioned ==
    \E e \in Execs : \E i \in Integrations :
        /\ task[e][i].pc = "retry"
        /\ Transition(e, i) /\ task[e][i].solo
        /\ task[e][i].count = 2 /\ task[e][i].out = <<e>>
        /\ rdb[i].stage = alert[e].Stage /\ rdb[i].ttl = RepeatTicks

\* C7: for a resolved alert DedupStage, on a context with GroupKey and
\* RepeatInterval, writes nothing to the store; the hash is in the resolved list
\* whatever happens; and when Exists answers, the alert is emitted iff the key
\* exists then (the read of the counter decides nothing).
C7_ResolvedOnlyReads ==
    [][\A e \in Execs : \A i \in Integrations :
          /\ (StepFrom(e, i, "dedup") /\ alert[e].Resolved /\ HasKeys(e))
             => /\ rdb' = rdb
                /\ task'[e][i].resolved = <<Hash>>
                /\ task'[e][i].firing = <<>>
                /\ NoKvErr(e, i) =>
                      IF rdb[i].stage # NoKey
                      THEN task'[e][i].pc = "getcnt"
                      ELSE task'[e][i].pc = "done" /\ task'[e][i].out = <<>>
          /\ StepFrom(e, i, "getcnt")
             => /\ rdb' = rdb
                /\ task'[e][i].resolved = <<Hash>>
                /\ task'[e][i].out = <<e>>
                /\ task'[e][i].pc = "retry"]_vars

\* C7: a resolved alert was emitted, its hash in the resolved list.
C7_ResolvedEmitted ==
    \E e \in Execs : \E i \in Integrations :
        /\ alert[e].Resolved
        /\ task[e][i].pc = "retry"
        /\ task[e][i].out = <<e>> /\ task[e][i].resolved = <<Hash>>
        /\ task[e][i].count >= 1

C9_ResolvedWithinTTL ==
    [][\A e \in Execs : \A i \in Integrations :
          /\ (StepFrom(e, i, "dedup") /\ alert[e].Resolved /\ NoKvErr(e, i))
             => /\ (hist[i].sinceSet < RepeatTicks /\ ~hist[i].delSince)
                   => task'[e][i].pc = "getcnt"
                /\ hist[i].sinceSet >= RepeatTicks
                   => task'[e][i].pc = "done" /\ task'[e][i].out = <<>>
          /\ StepFrom(e, i, "getcnt") => task'[e][i].out = <<e>>]_vars

\* C9: the alert was delivered as firing, and an execution on the resolved
\* alert that ran after the key expired emitted nothing.
C9_ResolvedAfterExpiryDropped ==
    \E e \in Execs : \E i \in Integrations :
        /\ alert[e].Resolved
        /\ task[e][i].pc = "done" /\ task[e][i].calls = 0 /\ ~task[e][i].kvErr
        /\ task[e][i].out = <<>> /\ task[e][i].resolved = <<Hash>>
        /\ hist[i].fired = "sent" /\ hist[i].sinceSet = RepeatTicks

\* C10: whenever an integration was called with an alert its own DedupStage
\* emitted and stamped (its Incr, or its Get of the counter, returned count),
\* the SentCount the call read is that count.
C10_SentCountIsOwnCounter ==
    \A e \in Execs : \A i \in Integrations :
        (Called(e, i) /\ Len(task[e][i].sent) > 0 /\ task[e][i].count # -1)
        => task[e][i].seen = task[e][i].count

\* C10, on a receiver with one integration: the SentCount the call read is the
\* count the integration's own DedupStage got from the store.
C10_SentCountOneIntegration ==
    \A e \in Execs : \A i \in Integrations :
        (/\ cfg.integrations = {i}
         /\ Called(e, i) /\ Len(task[e][i].sent) > 0 /\ task[e][i].count # -1)
        => task[e][i].seen = task[e][i].count

\* ------------------------------------------------- properties of RetryStage

\* A RetryStage execution that returned from its pre-filter, before the loop.
PreFiltered(t) == t.pc = "done" /\ t.calls = 0 /\ t.err # "canceled"

\* The step of an execution is a Notify call.
Calls(e, i) == task'[e][i].calls = task[e][i].calls + 1

Cancels(e, i) == task[e][i].err # "canceled" /\ task'[e][i].err = "canceled"

\* C12: when RetryStage stops because the context is done, the cause of the
\* error it returns is the error of the most recent Notify call if a call of
\* this execution failed, and the context's own error otherwise; the return
\* adds exactly 1 to notifications_failed_total and nothing to the requests
\* counters.
C12_CanceledCause ==
    /\ [][\A e \in Execs : \A i \in Integrations :
             Cancels(e, i) =>
                /\ metrics'[i].numTotalFailedNotifications
                      = metrics[i].numTotalFailedNotifications + 1
                /\ metrics'[i].numNotificationRequestsTotal
                      = metrics[i].numNotificationRequestsTotal]_vars
    /\ [](\A e \in Execs : \A i \in Integrations :
             LET t == task[e][i]
             IN  t.pc = "done" /\ t.err = "canceled" =>
                    t.iErr = IF t.calls > 0 THEN t.last ELSE "context")

\* C12 happens: an execution whose two calls failed with different errors
\* returned because its context was done.
C12_CanceledAfterTwoErrors ==
    \E e \in Execs : \E i \in Integrations :
        /\ task[e][i].pc = "done" /\ task[e][i].err = "canceled"
        /\ task[e][i].calls = 2 /\ task[e][i].warns = 2

\* C13: in every RetryStage execution no Notify call is started after the
\* context has become done, for every interleaving of ticks and the done
\* signal.
C13_NoCallAfterDone ==
    \A e \in Execs : \A i \in Integrations : task[e][i].late = 0

\* What holds of C13: an execution starts at most one Notify call on a context
\* that is done, because the head of the next iteration returns.
C13_AtMostOneCallAfterDone ==
    \A e \in Execs : \A i \in Integrations : task[e][i].late <= 1

\* The positions of an execution inside RetryStage.Exec.
InRetry(t) == t.pc \in {"retry", "select", "check"}

\* C14: RetryStage never gives up on its own: after any number of Notify calls
\* that failed with retry = true, it calls Notify again unless the context
\* becomes done; and, ticks being delivered and Notify calls returning, an
\* execution whose context is done returns.
C14_RetriesUntilDone ==
    \A e \in Execs : \A i \in Integrations :
        /\ \A n \in 1..MaxRetries :
              (task[e][i].pc = "check" /\ task[e][i].calls = n)
                 ~> (task[e][i].calls = n + 1 \/ ctx[e].done)
        /\ (ctx[e].done /\ InRetry(task[e][i])) ~> (task[e][i].pc = "done")

\* C14 happens: an execution that was asked to retry as often as the
\* integration may ask waits for the tick on a context that is done.
C14_DoneWhileRetrying ==
    \E e \in Execs : \E i \in Integrations :
        /\ ctx[e].done /\ task[e][i].pc = "select"
        /\ task[e][i].calls = MaxRetries /\ task[e][i].late = 0

\* The failed attempts whose error text is not that of the failed attempt before.
Changes(errs) ==
    Cardinality({k \in 1..Len(errs) : k = 1 \/ errs[k] # errs[k - 1]})

\* C15: an execution whose first n Notify calls failed with retry = true and
\* whose call n+1 succeeded, on a context that is not done, made n+1 calls and
\* returns the batch and no error; it added n to
\* notification_requests_failed_total and nothing to notifications_failed_total
\* (stated of the first execution for the integration name, whose counters
\* start at 0), and it logged one warning per failed attempt whose error text
\* differs from that of the failed attempt before: one when all n are the same.
C15_RetriesThenSuccess ==
    \A e \in Execs : \A i \in Integrations :
        LET t == task[e][i]
            n == Len(t.errs)
        IN  t.pc = "done" /\ t.last = "ok" /\ ~ctx[e].done =>
               /\ t.calls = n + 1 /\ t.err = "" /\ t.out = t.inp
               /\ t.warns = Changes(t.errs)
               /\ (n > 0 /\ \A k \in 1..n : t.errs[k] = t.errs[1]) => t.warns = 1
               /\ metrics[i].numNotifications = 1 =>
                     /\ metrics[i].numNotificationRequestsFailedTotal = n
                     /\ metrics[i].numNotificationRequestsTotal = n + 1
                     /\ metrics[i].numTotalFailedNotifications = 0

\* C15 happens: two attempts failed with the same error, the third succeeded.
C15_TwiceTheSameError ==
    \E e \in Execs : \E i \in Integrations :
        /\ task[e][i].pc = "done" /\ task[e][i].last = "ok" /\ ~ctx[e].done
        /\ task[e][i].calls = 3 /\ task[e][i].errs = <<"timeout", "timeout">>
        /\ metrics[i].numNotifications = 1

\* RetryStage.exec ran its pre-filter in this execution.
Filtered(t) == t.pc \in {"select", "check", "done"}

\* Every alert of the batch is resolved.
AllResolved(alerts) == \A k \in 1..Len(alerts) : alert[alerts[k]].Resolved

\* C16: for an integration with SendResolved() = false, whenever all input
\* alerts are resolved, RetryStage returns the input unchanged with no error
\* and calls Notify not once, whatever FiringAlerts list the context carries
\* (stated for contexts that are not done).
C16_AllResolvedNoCall ==
    \A e \in Execs : \A i \in Integrations :
        LET t == task[e][i]
        IN  (~SendResolved(i) /\ t.hasFiring /\ Filtered(t) /\ AllResolved(t.inp)
                /\ ~ctx[e].done) =>
               /\ t.calls = 0
               /\ t.pc = "done" => t.err = "" /\ t.out = t.inp

\* What holds of C16: with an empty FiringAlerts list the input is returned
\* unchanged, with no error and no call, whatever the alerts are.
C16_EmptyFiringNoCall ==
    \A e \in Execs : \A i \in Integrations :
        LET t == task[e][i]
        IN  (~SendResolved(i) /\ t.hasFiring /\ Filtered(t) /\ t.firing = <<>>) =>
               t.pc = "done" /\ t.calls = 0 /\ t.err = "" /\ t.out = t.inp

\* The place of an alert in a batch that holds it.
Pos(alerts, a) == CHOOSE k \in 1..Len(alerts) : alerts[k] = a

\* The alerts of a list.
Range(alerts) == {alerts[k] : k \in 1..Len(alerts)}

\* C17: for an integration with SendResolved() = false and a non-empty
\* FiringAlerts list, the list Notify is called with holds exactly the input
\* alerts that are not resolved, each once and in input order; for an
\* integration with SendResolved() = true it is the whole input.
C17_NotifiedAlerts ==
    \A e \in Execs : \A i \in Integrations :
        LET t == task[e][i]
        IN  (t.pc \in {"select", "check"} \/ t.calls > 0) =>
               IF SendResolved(i) THEN t.sent = t.inp
               ELSE /\ Len(t.firing) > 0
                    /\ Range(t.sent) = {a \in Range(t.inp) : ~alert[a].Resolved}
                    /\ Len(t.sent) = Cardinality(Range(t.sent))
                    /\ \A j, k \in 1..Len(t.sent) :
                          j < k => Pos(t.inp, t.sent[j]) < Pos(t.inp, t.sent[k])

\* C17 happens: Notify was called with fewer alerts than the batch has, and
\* with at least one.
C17_ResolvedLeftOut ==
    \E e \in Execs : \E i \in Integrations :
        /\ task[e][i].calls > 0 /\ ~SendResolved(i)
        /\ Len(task[e][i].inp) = 2 /\ Len(task[e][i].sent) = 1

\* The executions of integration i that, in this step, enter RetryStage.Exec,
\* call Notify, call Notify and get an error, return an error from RetryStage.Exec.
Entering(i) ==
    {e \in Execs : task[e][i].pc = "retry" /\ task'[e][i].pc # "retry"}
Calling(i) == {e \in Execs : Calls(e, i)}
Failing(i) == {e \in Execs : Calls(e, i) /\ task'[e][i].last # "ok"}
Erring(i) ==
    {e \in Execs : InRetry(task[e][i]) /\ task'[e][i].pc = "done" /\ task'[e][i].err # ""}

\* C18: for each integration name, whatever RetryStage executions run, one
\* after another or at the same time: every step adds to notifications_total
\* the number of entries of RetryStage.Exec, to notification_requests_total the
\* number of Notify calls, to notification_requests_failed_total the number of
\* Notify calls that returned an error, and to notifications_failed_total the
\* number of returns with an error, so each counter equals the number of those
\* events so far; and requests_failed <= requests_total and
\* notifications_failed <= notifications_total always.
C18_CountersCountEvents ==
    /\ [][\A i \in Integrations :
             /\ metrics'[i].numNotifications
                   = metrics[i].numNotifications + Cardinality(Entering(i))
             /\ metrics'[i].numNotificationRequestsTotal
                   = metrics[i].numNotificationRequestsTotal + Cardinality(Calling(i))
             /\ metrics'[i].numNotificationRequestsFailedTotal
                   = metrics[i].numNotificationRequestsFailedTotal + Cardinality(Failing(i))
             /\ metrics'[i].numTotalFailedNotifications
                   = metrics[i].numTotalFailedNotifications + Cardinality(Erring(i))]_vars
    /\ [](\A i \in Integrations :
             /\ metrics[i].numNotificationRequestsFailedTotal
                   <= metrics[i].numNotificationRequestsTotal
             /\ metrics[i].numTotalFailedNotifications <= metrics[i].numNotifications)

\* C18 happens: two executions for the same integration name are in RetryStage
\* at the same time, each made one call, one call failed and its execution
\* returned the error.
C18_ConcurrentCounts ==
    \E i \in Integrations :
        /\ \A e \in Execs : task[e][i].calls = 1 /\ task[e][i].pc = "done"
        /\ metrics[i] = [numNotifications |-> 2, numTotalFailedNotifications |-> 1,
                         numNotificationRequestsTotal |-> 2,
                         numNotificationRequestsFailedTotal |-> 1]

\* ------------------------------------------------ properties of FanoutStage

\* The step starts, ends, the FanoutStage of an execution.
FanoutStarts(e) == exec[e].st # "fanout" /\ exec'[e].st = "fanout"
FanoutReturns(e) == exec[e].st = "fanout" /\ exec'[e].st # "fanout"

\* C19: FanoutStage starts every child, on the one batch and the one context
\* of the execution; it returns only when every child has returned; the error
\* it returns is nil iff no child failed and else a multi-error that holds
\* exactly the errors of the children that failed, one each; and the step in
\* which a child fails changes neither the context nor any other child.
C19_FanoutCollectsErrors ==
    [][\A e \in Execs :
          /\ FanoutStarts(e) =>
                \A i \in Integrations :
                   task'[e][i].pc = IF i \in cfg.integrations THEN "dedup" ELSE "idle"
          /\ FanoutReturns(e) =>
                /\ \A i \in cfg.integrations : task[e][i].pc = "done"
                /\ exec'[e].err = "" <=> \A i \in cfg.integrations : task[e][i].err = ""
                /\ exec'[e].err = "" <=> exec'[e].me = {}
                /\ \A i \in Integrations : \A err \in {"unrecoverable", "canceled"} :
                      <<i, err>> \in exec'[e].me
                         <=> i \in cfg.integrations /\ task[e][i].err = err
                /\ Cardinality(exec'[e].me)
                      = Cardinality({i \in cfg.integrations : task[e][i].err # ""})
          /\ \A i \in Integrations :
                (task[e][i].err = "" /\ task'[e][i].err # "") =>
                   /\ ctx' = ctx /\ exec' = exec
                   /\ \A j \in Integrations \ {i} : task'[e][j] = task[e][j]]_vars

\* C19 happens: of the two children of an execution one failed and the other
\* delivered, and FanoutStage returned the error of the one.
C19_OneChildFailed ==
    \E e \in Execs :
        /\ cfg.integrations = Integrations /\ exec[e].st = "idle"
        /\ exec[e].me = {<<"webhook", "unrecoverable">>}
        /\ hist["email"].fired = "sent" /\ hist["webhook"].fired = "set"

\* C20: FanoutStage preserves the input alert list: when no child fails, the
\* list it returns is the batch it was called with.
C20_ReturnsInput ==
    [][\A e \in Execs :
          (FanoutReturns(e) /\ exec'[e].err = "") => exec'[e].ret = <<e>>]_vars

\* What holds of C20: FanoutStage returns no alerts at all, whether or not a
\* child failed, so never a part of the batch.
C20_ReturnsNoAlerts ==
    [][\A e \in Execs : FanoutReturns(e) => exec'[e].ret = <<>>]_vars

\* ------------------------------------------ properties of stages on their own

\* What the k-th stage called by the recorded MultiStage call returned.
ResultOf(k) == RunStage(unit.in.ms[k], unit.ret.ran[k].ctx, unit.ret.ran[k].alerts)

\* The context and the batch the recorded MultiStage call held after k calls.
CtxAfter(k) == IF k = 0 THEN unit.in.ctx ELSE ResultOf(k).ctx
BatchAfter(k) == IF k = 0 THEN unit.in.alerts ELSE ResultOf(k).alerts

\* C21: MultiStage tests the batch before each stage: no stage is executed on
\* an empty batch, and when the batch is empty before a stage (the input batch
\* included) MultiStage returns the context it holds, no alerts and no error.
C21_StopsOnEmptyBatch ==
    unit.op = "MultiStage" =>
       LET n == Len(unit.ret.ran)
       IN  /\ n <= Len(unit.in.ms)
           /\ \A k \in 1..n :
                 /\ unit.ret.ran[k].stage = unit.in.ms[k].name
                 /\ unit.ret.ran[k].alerts = BatchAfter(k - 1)
                 /\ unit.ret.ran[k].alerts # <<>>
           /\ (n < Len(unit.in.ms) /\ BatchAfter(n) = <<>>
                  /\ (n > 0 => ResultOf(n).err = "")) =>
                 unit.ret = [ctx |-> CtxAfter(n), alerts |-> <<>>, err |-> "",
                             ran |-> unit.ret.ran]

\* C21 happens: the first of three stages returned no alerts and no error, and
\* the other two were not executed.
C21_BatchEmptiedByFirstStage ==
    /\ unit.op = "MultiStage" /\ Len(unit.in.ms) = 3 /\ unit.in.alerts # <<>>
    /\ unit.in.ms[1].kind = "drop" /\ Len(unit.ret.ran) = 1
    /\ unit.ret.err = "" /\ unit.ret.alerts = <<>>


\* C22: MultiStage runs its stages left to right, each on the context and the
\* batch the previous one returned; the first error ends the run, and it is
\* returned as it is, with no alerts.
C22_LeftToRightUntilError ==
    unit.op = "MultiStage" =>
       LET n == Len(unit.ret.ran)
       IN  /\ \A k \in 1..n :
                 /\ unit.ret.ran[k] = CallOf(unit.in.ms[k], CtxAfter(k - 1), BatchAfter(k - 1))
                 /\ ResultOf(k).err # "" =>
                       /\ k = n
                       /\ unit.ret.err = ResultOf(k).err
                       /\ unit.ret.alerts = <<>>
           /\ unit.ret.err # "" => n > 0 /\ ResultOf(n).err = unit.ret.err
           /\ (n = Len(unit.in.ms) /\ unit.ret.err = "") =>
                 /\ unit.ret.ctx = CtxAfter(n)
                 /\ unit.ret.alerts = BatchAfter(n)

\* C22 happens: the second of three stages failed while returning a batch; the
\* first had changed the context and the batch, the third was not executed.
C22_SecondStageFailed ==
    /\ unit.op = "MultiStage" /\ Len(unit.in.ms) = 3
    /\ unit.in.ms[1].kind = "mute" /\ unit.in.ms[2].kind = "failkeep"
    /\ Len(unit.in.alerts) = 2 /\ Len(unit.ret.ran) = 2
    /\ unit.ret.ran[2].alerts # unit.in.alerts
    /\ "s1" \in unit.ret.ran[2].ctx.seen
    /\ unit.ret.err = "s2" /\ unit.ret.alerts = <<>>


\* What the only stage of the recorded one-stage MultiStage call returns when it
\* is called directly on the same context and batch.
Direct == RunStage(unit.in.ms[1], unit.in.ctx, unit.in.alerts)

\* C23 as stated: a MultiStage of one stage X executes X once on its input and
\* returns the context, the alert list and the error X returns.
C23_SameAsItsOnlyStage ==
    (unit.op = "MultiStage" /\ Len(unit.in.ms) = 1) =>
       /\ unit.ret.ran = <<CallOf(unit.in.ms[1], unit.in.ctx, unit.in.alerts)>>
       /\ unit.ret.ctx = Direct.ctx
       /\ unit.ret.alerts = Direct.alerts
       /\ unit.ret.err = Direct.err

\* C23, amended: on a non-empty batch a MultiStage of one stage X executes X
\* once on its input and returns X's context and error, and X's alert list when
\* X returns no error (no alerts otherwise); on an empty batch X is not
\* executed and the input context comes back with no alerts and no error.
C23_SameOnNonEmptyBatch ==
    (unit.op = "MultiStage" /\ Len(unit.in.ms) = 1) =>
       IF unit.in.alerts = <<>>
       THEN unit.ret = [ctx |-> unit.in.ctx, alerts |-> <<>>, err |-> "", ran |-> <<>>]
       ELSE /\ unit.ret.ran = <<CallOf(unit.in.ms[1], unit.in.ctx, unit.in.alerts)>>
            /\ unit.ret.ctx = Direct.ctx
            /\ unit.ret.err = Direct.err
            /\ unit.ret.alerts = IF Direct.err = "" THEN Direct.alerts ELSE <<>>

\* C23 happens: a MultiStage of one filtering stage returned what the stage
\* returns on a batch of two.
C23_OneFilteringStage ==
    /\ unit.op = "MultiStage" /\ Len(unit.in.ms) = 1
    /\ unit.in.ms[1].kind = "mute" /\ Len(unit.in.alerts) = 2
    /\ Len(unit.ret.ran) = 1 /\ Len(unit.ret.alerts) = 1
    /\ unit.ret.ctx # unit.in.ctx


\* C24: RoutingStage returns an error and executes no stage when the context
\* has no receiver name or the map has no stage for the name; otherwise it
\* executes the stage of that receiver, and no other, once on its own input and
\* returns what the stage returns.
C24_RoutesByReceiver ==
    unit.op = "RoutingStage" =>
       LET c == unit.in.ctx
           rs == unit.in.rs
       IN  IF ~c.receiver.ok \/ c.receiver.v \notin DOMAIN rs
           THEN unit.ret.err # "" /\ unit.ret.ran = <<>>
           ELSE /\ unit.ret.ran = <<CallOf(rs[c.receiver.v], c, unit.in.alerts)>>
                /\ unit.ret.ran[1].stage = c.receiver.v
                /\ [ctx |-> unit.ret.ctx, alerts |-> unit.ret.alerts, err |-> unit.ret.err]
                      = RunStage(rs[c.receiver.v], c, unit.in.alerts)

\* C24 happens: of two receivers' stages, the second receiver's one was
\* executed, and its error returned, where the first one would have passed.
C24_SecondReceiverRouted ==
    /\ unit.op = "RoutingStage" /\ DOMAIN unit.in.rs = {"r1", "r2"}
    /\ unit.in.ctx.receiver = Some("r2")
    /\ unit.in.rs["r1"].kind = "pass" /\ unit.in.rs["r2"].kind = "failkeep"
    /\ unit.in.alerts # <<>>
    /\ Len(unit.ret.ran) = 1 /\ unit.ret.err = "r2" /\ unit.ret.alerts = unit.in.alerts


\* C25: MuteStage returns, without an error, the alerts of its input the muter
\* does not mute, each once and in the order of the input; with a muter that
\* mutes none of them the batch comes back as it is.
C25_KeepsTheUnmuted ==
    unit.op = "MuteStage" =>
       LET inp == unit.in.alerts
           out == unit.ret.alerts
           kept == {k \in DOMAIN inp : inp[k] \notin unit.in.muter}
       IN  /\ unit.ret.err = ""
           /\ Len(out) = Cardinality(kept)
           /\ \E f \in [DOMAIN out -> kept] :
                 /\ \A k \in DOMAIN out : out[k] = inp[f[k]]
                 /\ \A j, k \in DOMAIN out : j < k => f[j] < f[k]
           /\ kept = DOMAIN inp => out = inp

\* C25 happens: of a batch of two the first alert was muted and the second
\* came back.
C25_FirstOfTwoMuted ==
    /\ unit.op = "MuteStage" /\ Len(unit.in.alerts) = 2
    /\ unit.in.muter = {unit.in.alerts[1]}
    /\ unit.ret.alerts = <<unit.in.alerts[2]>>


\* C26 as stated: TimeActiveStage returns its batch when the context has no
\* list of active names or an empty one; otherwise an error when the context
\* has no Now, the batch when Now lies in a listed interval, and no alerts when
\* it lies in none; the output is the input or empty.
C26_ActiveAllOrNothing ==
    unit.op = "TimeActiveStage" =>
       LET c == unit.in.ctx
       IN  /\ unit.ret.alerts \in {unit.in.alerts, <<>>}
           /\ IF ~c.active.ok \/ Len(c.active.v) = 0
              THEN unit.ret = Ret(unit.in.alerts, "")
              ELSE IF ~c.now.ok THEN unit.ret.err # ""
              ELSE IF InListed(c.active, c.now) THEN unit.ret = Ret(unit.in.alerts, "")
              ELSE unit.ret = Ret(<<>>, "")

\* C26, amended: as stated, but when a name the interval table does not hold
\* is listed before any interval that contains Now, the stage returns an error.
C26_ActiveAllOrNothingOrUnknown ==
    unit.op = "TimeActiveStage" =>
       LET c == unit.in.ctx
       IN  /\ unit.ret.alerts \in {unit.in.alerts, <<>>}
           /\ IF ~c.active.ok \/ Len(c.active.v) = 0
              THEN unit.ret = Ret(unit.in.alerts, "")
              ELSE IF ~c.now.ok THEN unit.ret.err # ""
              ELSE IF UnknownFirst(c.active.v, c.now.v) THEN unit.ret.err # ""
              ELSE IF InListed(c.active, c.now) THEN unit.ret = Ret(unit.in.alerts, "")
              ELSE unit.ret = Ret(<<>>, "")

\* C26 happens: a batch of two passed because Now lies in the second of two
\* listed intervals.
C26_ActiveInSecondInterval ==
    /\ unit.op = "TimeActiveStage" /\ Len(unit.in.alerts) = 2
    /\ unit.in.ctx.active = Some(<<"night", "work">>)
    /\ unit.in.ctx.now = Some(1)
    /\ unit.ret = Ret(unit.in.alerts, "")

\* C27 as stated: TimeMuteStage returns its batch when the context has no list
\* of mute names; otherwise an error when the context has no Now (also for an
\* empty list), no alerts when Now lies in a listed interval, and the batch
\* when it lies in none; the output is the input or empty.
C27_MuteAllOrNothing ==
    unit.op = "TimeMuteStage" =>
       LET c == unit.in.ctx
       IN  /\ unit.ret.alerts \in {unit.in.alerts, <<>>}
           /\ IF ~c.mute.ok THEN unit.ret = Ret(unit.in.alerts, "")
              ELSE IF ~c.now.ok THEN unit.ret.err # ""
              ELSE IF InListed(c.mute, c.now) THEN unit.ret = Ret(<<>>, "")
              ELSE unit.ret = Ret(unit.in.alerts, "")

\* C27, amended: as stated, but when a name the interval table does not hold
\* is listed before any interval that contains Now, the stage returns an error.
C27_MuteAllOrNothingOrUnknown ==
    unit.op = "TimeMuteStage" =>
       LET c == unit.in.ctx
       IN  /\ unit.ret.alerts \in {unit.in.alerts, <<>>}
           /\ IF ~c.mute.ok THEN unit.ret = Ret(unit.in.alerts, "")
              ELSE IF ~c.now.ok THEN unit.ret.err # ""
              ELSE IF UnknownFirst(c.mute.v, c.now.v) THEN unit.ret.err # ""
              ELSE IF InListed(c.mute, c.now) THEN unit.ret = Ret(<<>>, "")
              ELSE unit.ret = Ret(unit.in.alerts, "")

\* C27 happens: a batch of two was dropped because Now lies in the second of
\* two listed intervals.
C27_MutedInSecondInterval ==
    /\ unit.op = "TimeMuteStage" /\ Len(unit.in.alerts) = 2
    /\ unit.in.ctx.mute = Some(<<"work", "night">>)
    /\ unit.in.ctx.now = Some(0)
    /\ unit.ret = Ret(<<>>, "")


\* The list of names the recorded call of a time stage looks up, if any.
Looked ==
    IF unit.op = "TimeActiveStage" THEN unit.in.ctx.active ELSE unit.in.ctx.mute

\* The error of a listed name the interval table does not hold.
NoSuchInterval == "time interval doesn't exist in config"

\* C28 as stated: a time stage whose list contains a name the interval table
\* does not hold returns the error for it, wherever the name stands in the list
\* and whatever Now is.
C28_UnknownNameFails ==
    (/\ unit.op \in {"TimeActiveStage", "TimeMuteStage"}
     /\ Looked.ok /\ unit.in.ctx.now.ok
     /\ \E k \in 1..Len(Looked.v) : Looked.v[k] \notin KnownNames)
       => unit.ret.err = NoSuchInterval

\* C28, amended: with Now in the context, a time stage returns the error for a
\* name the interval table does not hold exactly when such a name is listed
\* before any interval that contains Now.
C28_UnknownNameFailsWhenReached ==
    (/\ unit.op \in {"TimeActiveStage", "TimeMuteStage"}
     /\ Looked.ok /\ unit.in.ctx.now.ok)
       => (unit.ret.err = NoSuchInterval <=> UnknownFirst(Looked.v, unit.in.ctx.now.v))

\* C28 happens: the unknown name stands second in the list, after an interval
\* that does not contain Now, and the stage returned the error.
C28_UnknownSecondReached ==
    /\ unit.op = "TimeMuteStage"
    /\ unit.in.ctx.mute = Some(<<"work", "ghost">>)
    /\ unit.in.ctx.now = Some(0)
    /\ unit.in.alerts # <<>>
    /\ unit.ret.err = NoSuchInterval


\* The recorded DedupStage call emitted the alert; made the store call op for
\* it; got an error from that call.
Emitted(a) == a.id \in Range(unit.ret.out)
Issued(a, op) == <<a.id, op>> \in Range(unit.ret.ops)
Failed(a, op) ==
    /\ unit.in.bad = Outage \/ unit.in.bad = [a |-> a.id, op |-> op]
    /\ Issued(a, op)

\* What the recorded DedupStage call returns when no store call fails.
Clean == DedupStageExec(unit.in.ctx, unit.in.kv, NoFault, unit.in.alerts)

\* The alert fared as it does when no store call fails: emitted or not, its
\* SentCount, its key and its counter.
AsWithoutFault(a) ==
    /\ Emitted(a) <=> a.id \in Range(Clean.out)
    /\ unit.ret.count[a.id] = Clean.count[a.id]
    /\ unit.ret.kv[a.id] = Clean.kv[a.id]

\* The recorded call is one of DedupStage on a context that has GroupKey and
\* RepeatInterval.
DedupRan == unit.op = "DedupStage" /\ unit.in.ctx.gkey /\ unit.in.ctx.repeat

\* C29 as stated, for one store call that fails: an alert for which Exists, a
\* Get, SetNX or Incr returned an error is not emitted; the other alerts are processed as without the error,
\* and the stage returns no error.
C29_AnyStoreErrorSkips ==
    (DedupRan /\ unit.in.bad # Outage) =>
       /\ unit.ret.err = ""
       /\ \A k \in 1..Len(unit.in.alerts) :
             LET a == unit.in.alerts[k]
             IN  /\ \A op \in KvOps \ {"Del"} : Failed(a, op) => ~Emitted(a)
                 /\ a.id # unit.in.bad.a => AsWithoutFault(a)

\* C29, amended, for one store call that fails: an alert is skipped on an error
\* of Exists or of SetNX; on an
\* error of the counter's Get or of Incr it is emitted with the SentCount it
\* had; on an error of the stage's Get the alert's own Stage is taken for the
\* stored one, so SetNX follows without a Del and the alert is emitted iff
\* there was no key.  The other alerts are processed as without the error, and
\* the stage returns no error.
C29_ExistsOrSetNXErrorSkips ==
    (DedupRan /\ unit.in.bad # Outage) =>
       /\ unit.ret.err = ""
       /\ \A k \in 1..Len(unit.in.alerts) :
             LET a == unit.in.alerts[k]
             IN  /\ Failed(a, "Exists") \/ Failed(a, "SetNX") =>
                       ~Emitted(a) /\ unit.ret.count[a.id] = a.SentCount
                 /\ Failed(a, "GetCount") \/ Failed(a, "Incr") =>
                       Emitted(a) /\ unit.ret.count[a.id] = a.SentCount
                 /\ Failed(a, "Get") =>
                       /\ Issued(a, "SetNX") /\ ~Issued(a, "Del")
                       /\ Emitted(a) <=> unit.in.kv[a.id].stage = NoKey
                 /\ a.id # unit.in.bad.a => AsWithoutFault(a)

\* C29 happens: Incr failed for the first of two alerts, which was emitted with
\* its SentCount unchanged, and the second, a resolved alert whose key exists,
\* was emitted with the counter's value.
C29_IncrFailedForFirstOfTwo ==
    /\ DedupRan /\ Len(unit.in.alerts) = 2
    /\ Failed(unit.in.alerts[1], "Incr")
    /\ unit.in.alerts[2].Resolved
    /\ unit.ret.out = <<"a1", "a2">>
    /\ unit.in.alerts[1].SentCount = 2
    /\ unit.ret.count["a1"] = 2 /\ unit.ret.count["a2"] = 1


\* The error DedupStage.Exec returns on the context of execution e.
MissingKey(e) ==
    IF ~ctx[e].gkey THEN "group key missing"
    ELSE IF ~ctx[e].repeat THEN "repeat interval missing" ELSE ""

\* C30: on a context without GroupKey or RepeatInterval, DedupStage returns an
\* error and no alerts without a store call (the store, every SentCount and the
\* counters stay as they are), and the child's MultiStage returns without
\* executing RetryStage: the child never gets beyond DedupStage and no Notify
\* call is made.
C30_MissingKeyStopsChild ==
    /\ [][\A e \in Execs : \A i \in Integrations :
             (~HasKeys(e) /\ task[e][i].pc = "dedup" /\ task'[e][i] # task[e][i]) =>
                /\ task'[e][i] = [task[e][i] EXCEPT !.pc = "done", !.err = MissingKey(e)]
                /\ rdb' = rdb /\ alert' = alert /\ metrics' = metrics]_vars
    /\ [](\A e \in Execs : \A i \in Integrations :
             ~HasKeys(e) =>
                /\ task[e][i].pc \in {"idle", "dedup", "done"}
                /\ task[e][i].calls = 0 /\ task[e][i].out = <<>>
                /\ task[e][i].pc = "done" => task[e][i].err = MissingKey(e))

\* C30 happens: on a context without RepeatInterval both children returned the
\* error and FanoutStage returned them, with no Notify call made, no key set
\* and no counter started.
C30_BothChildrenStopped ==
    \E e \in Execs :
        /\ exec[e].st = "idle"
        /\ exec[e].me = {<<i, "repeat interval missing">> : i \in Integrations}
        /\ \A i \in Integrations :
              /\ metrics[i] = NoMetrics
              /\ rdb[i] = [stage |-> NoKey, ttl |-> 0, sent |-> 0]


\* -------------------------------------- properties of the store's contents

\* No pipeline execution is running.
Quiescent == \A e \in Execs : exec[e].st \in {"idle", "stopped"}

\* The executions whose Incr for integration i answers in this step.
Incrementing(i) ==
    {e \in Execs : task[e][i].pc = "incr" /\ task'[e][i].pc # "incr"
                      /\ task'[e][i].count # -1}

\* C31 as stated: when no execution is running, the sent counter of a key is
\* the number of Notify calls that delivered the alert as firing.
C31_CounterCountsDeliveries ==
    \A i \in Integrations : Quiescent => rdb[i].sent = hist[i].delivered

\* C31, amended: the sent counter of a key counts the Incr calls that answered,
\* one per DedupStage execution that set the key, made before any Notify call
\* and whatever becomes of the delivery; it never goes down, and while no store
\* call fails it is at least the number of Notify calls that delivered the
\* alert as firing.
C31_CounterCountsIncr ==
    /\ [][\A i \in Integrations :
             /\ rdb'[i].sent = rdb[i].sent + Cardinality(Incrementing(i))
             /\ \A e \in Incrementing(i) : task[e][i].calls = 0]_vars
    /\ [](\A i \in Integrations :
             (cfg.faults = 0 /\ ~cfg.cancel) => hist[i].delivered <= rdb[i].sent)

\* C31 happens: no execution is running, the counter stands at two, and one
\* Notify call delivered the alert as firing.
C31_TwoCountedOneDelivered ==
    \E i \in Integrations :
        Quiescent /\ rdb[i].sent = 2 /\ hist[i].delivered = 1

\* ---- properties of FanoutStage under cancellation

\* A child returns from the loop of RetryStage without having made a call in
\* this step.
LeavesLoop(e, i) ==
    /\ task[e][i].pc \in {"check", "select"}
    /\ task'[e][i].pc = "done"
    /\ task'[e][i].calls = task[e][i].calls

\* C32 as stated: FanoutStage does not report the cancellation upward, so an
\* error it returns holds the error of a child that failed for another reason.
C32_CancellationNotReported ==
    \A e \in Execs :
        exec[e].me # {} => \E p \in exec[e].me : p[2] # "canceled"

\* C32, amended: FanoutStage returns only after every child returned and has no
\* test of the context of its own; a child that leaves the loop of RetryStage
\* on ctx.Done() returns the cancellation as its error, and FanoutStage returns
\* every such error in its multi-error; its error is nil exactly when no child
\* returned one, cancelled or not.
C32_ChildCancellationReported ==
    [][\A e \in Execs :
          /\ \A i \in cfg.integrations :
                LeavesLoop(e, i) => ctx[e].done /\ task'[e][i].err = "canceled"
          /\ FanoutReturns(e) =>
                /\ \A i \in cfg.integrations :
                      /\ task[e][i].pc = "done"
                      /\ task[e][i].err = "canceled" =>
                            /\ <<i, "canceled">> \in exec'[e].me
                            /\ exec'[e].err # ""
                /\ exec'[e].err = "" <=>
                      \A i \in cfg.integrations : task[e][i].err = ""]_vars

\* C32 happens: an execution was cancelled while both children were in
\* RetryStage, and FanoutStage returned the two cancellations and nothing else.
C32_OnlyCancellationsReturned ==
    \E e \in Execs :
        /\ exec[e].st = "idle"
        /\ exec[e].err = "multi"
        /\ exec[e].me = {<<i, "canceled">> : i \in Integrations}

\* ---- properties of DedupStage on a resolved alert without a counter

\* The recorded DedupStage call found the state key of resolved alert a and
\* could not read its counter: there is none, or the Get failed.
CounterUnread(a) ==
    /\ a.Resolved /\ ~Failed(a, "Exists")
    /\ unit.in.kv[a.id].stage # NoKey
    /\ unit.in.kv[a.id].sent = 0 \/ Failed(a, "GetCount")

\* C33 as stated: a resolved alert whose state key exists and whose counter
\* cannot be read is emitted with SentCount = 0, whatever it carried.
C33_UnreadCounterGivesZero ==
    DedupRan =>
       \A k \in 1..Len(unit.in.alerts) :
          LET a == unit.in.alerts[k]
          IN  CounterUnread(a) => Emitted(a) /\ unit.ret.count[a.id] = 0

\* C33, what the code keeps: such an alert is emitted with the SentCount it
\* carried into the stage, which is 0 only if it came in with 0.
C33_UnreadCounterKeepsCarried ==
    DedupRan =>
       \A k \in 1..Len(unit.in.alerts) :
          LET a == unit.in.alerts[k]
          IN  CounterUnread(a) => Emitted(a) /\ unit.ret.count[a.id] = a.SentCount

\* C33 happens: a resolved alert that carried SentCount 2 was emitted with 2,
\* its key in the store and no counter.
C33_CarriedTwoEmittedWithTwo ==
    /\ DedupRan /\ unit.in.bad = NoFault /\ Len(unit.in.alerts) = 1
    /\ CounterUnread(unit.in.alerts[1])
    /\ unit.in.alerts[1].SentCount = 2
    /\ unit.ret.out = <<"a1">> /\ unit.ret.count["a1"] = 2

\* ---- properties of ClearSKeyStage

\* The hash list a store call of the recorded call is made for: the firing
\* hashes for SAdd, the resolved ones for Del and SRem.
HashesFor(call) ==
    IF call.op = "SAdd" THEN unit.in.ctx.firing.v ELSE unit.in.ctx.resolved.v

\* For each hash its state key and its counter key, and nothing else.
CleanKeys(hashes) == AppendKeys(<<>>, unit.in.ctx.gkey.v, ClearRecv, hashes)

\* The rest of what the stage does: the batch comes back when there is no
\* error, the only error is that of a missing GroupKey, nothing is asked of the
\* store without a RuleUID, and SAdd (Del and SRem) is called exactly for a
\* non-empty firing (resolved) list.
ClearOutcome ==
    /\ unit.ret.err # "" <=> ~unit.in.ctx.gkey.ok
    /\ unit.ret.err = "" => unit.ret.alerts = unit.in.alerts
    /\ ~unit.in.ctx.rule.ok => unit.ret.ops = <<>>
    /\ (unit.in.ctx.gkey.ok /\ unit.in.ctx.rule.ok) =>
          /\ (\E k \in 1..Len(unit.ret.ops) : unit.ret.ops[k].op = "SAdd")
                <=> (unit.in.ctx.firing.ok /\ Len(unit.in.ctx.firing.v) > 0)
          /\ \A op \in {"Del", "SRem"} :
                (\E k \in 1..Len(unit.ret.ops) : unit.ret.ops[k].op = op)
                   <=> (unit.in.ctx.resolved.ok /\ Len(unit.in.ctx.resolved.v) > 0)

\* C34 as stated: the key list of every store call has 2n entries for n
\* hashes, the state key and the counter key of each hash, and no empty string.
C34_CleanKeyList ==
    unit.op = "ClearSKeyStage" =>
       /\ ClearOutcome
       /\ \A k \in 1..Len(unit.ret.ops) :
             LET call == unit.ret.ops[k]
             IN  /\ Len(call.keys) = 2 * Len(HashesFor(call))
                 /\ call.keys = CleanKeys(HashesFor(call))
                 /\ \A j \in 1..Len(call.keys) : call.keys[j] # <<>>

\* C34, what the code does: the key list has 3n entries, n empty strings and
\* then the state key and the counter key of each hash.
C34_EmptyStringsLead ==
    unit.op = "ClearSKeyStage" =>
       /\ ClearOutcome
       /\ \A k \in 1..Len(unit.ret.ops) :
             LET call == unit.ret.ops[k]
                 n == Len(HashesFor(call))
             IN  /\ Len(call.keys) = 3 * n
                 /\ \A j \in 1..n : call.keys[j] = <<>>
                 /\ SubSeq(call.keys, n + 1, 3 * n) = CleanKeys(HashesFor(call))

\* C34 happens: one firing hash, no resolved one, and SAdd was called with an
\* empty string and the two keys of the hash.
C34_OneHashThreeEntries ==
    /\ unit.op = "ClearSKeyStage" /\ unit.in.ctx.firing = Some(<<7>>) /\ ~unit.in.ctx.resolved.ok
    /\ Len(unit.ret.ops) = 1 /\ unit.ret.ops[1].op = "SAdd"
    /\ unit.ret.ops[1].keys =
          <<<<>>, <<"g", ":", "r", ":", "w", ":", "0", ":", "7">>,
            AlertSentPrefix \o <<"g", ":", "r", ":", "w", ":", "0", ":", "7">>>>

\* ---- properties of DedupStage during a store outage

\* The recorded call is one of an integration's MultiStage, every store call of
\* which failed, on a context that has GroupKey and RepeatInterval.
OutageRan ==
    /\ unit.op = "ReceiverStage" /\ unit.in.bad = Outage
    /\ unit.in.ctx.gkey /\ unit.in.ctx.repeat

\* The store calls the recorded DedupStage made for alert a, in order.
OpsFor(a) ==
    LET ops == unit.ret.dedup.ops
        mine == SelectSeq(ops, LAMBDA o : o[1] = a.id)
    IN  [k \in 1..Len(mine) |-> mine[k][2]]

\* C35: when every store call fails, DedupStage returns no error and no alerts,
\* whatever the batch and the store hold: a firing alert is not emitted, its
\* SetNX having failed; a resolved one is not emitted, its Exists having failed;
\* the FiringAlerts list is empty, the store is as it was, and RetryStage is not
\* executed.
C35_OutageEmitsNothing ==
    OutageRan =>
       /\ unit.ret.dedup.err = "" /\ unit.ret.dedup.out = <<>>
       /\ unit.ret.dedup.firing = <<>>
       /\ unit.ret.dedup.kv = unit.in.kv
       /\ \A k \in 1..Len(unit.in.alerts) :
             LET a == unit.in.alerts[k]
             IN  /\ ~a.Resolved => OpsFor(a) = <<"Get", "SetNX">>
                 /\ a.Resolved => OpsFor(a) = <<"Exists">>
                 /\ unit.ret.dedup.count[a.id] = a.SentCount
       /\ "RetryStage" \notin Range(unit.ret.ran)
       /\ unit.ret.notify = <<>>

\* C35 happens: in an outage, a firing alert without a key and a resolved alert
\* with one went through DedupStage; neither was emitted and RetryStage was not
\* executed.
C35_OutageDropsFiringAndResolved ==
    /\ OutageRan /\ Len(unit.in.alerts) = 2
    /\ ~unit.in.alerts[1].Resolved /\ unit.in.kv["a1"].stage = NoKey
    /\ unit.in.alerts[2].Resolved /\ unit.in.kv["a2"].stage # NoKey
    /\ unit.ret.ran = <<"DedupStage">>
    /\ unit.ret.dedup.ops = <<<<"a1", "Get">>, <<"a1", "SetNX">>, <<"a2", "Exists">>>>
    /\ unit.ret.dedup.out = <<>>

\* ---- properties of the dedup state after a delivery that failed

\* The RetryStage of child i of execution e returns a failure in this step: an
\* error with retry = false, or the context was done.
RetryFails(e, i) ==
    /\ task[e][i].pc # "done" /\ task'[e][i].pc = "done"
    /\ task'[e][i].err \in {"unrecoverable", "canceled"}

\* Child i of execution e holds a firing alert whose Stage is the one stored at
\* its state key, which exists.
SameStage(e, i) ==
    /\ HasKeys(e) /\ ~alert[e].Resolved
    /\ Exists(i) /\ rdb[i].stage = alert[e].Stage

\* C36: a RetryStage that fails leaves the state key and the counter as
\* DedupStage wrote them; and a DedupStage that finds the key of its firing
\* alert with the alert's Stage goes from Get to SetNX without a Del, and if the
\* key is still there at SetNX the alert is dropped: the child returns without
\* RetryStage and without a Notify call, the store as it was.
C36_NoRollbackThenDropped ==
    [][\A e \in Execs : \A i \in cfg.integrations :
          /\ RetryFails(e, i) => rdb' = rdb
          /\ (task[e][i].pc = "dedup" /\ task'[e][i].pc # "dedup" /\ SameStage(e, i)) =>
                task'[e][i].pc = "setnx" /\ rdb' = rdb
          /\ (task[e][i].pc = "setnx" /\ task'[e][i].pc # "setnx" /\ Exists(i)) =>
                /\ task'[e][i].pc = "done" /\ task'[e][i].err = ""
                /\ task'[e][i].out = <<>> /\ task'[e][i].firing = <<>>
                /\ task'[e][i].calls = 0
                /\ rdb' = rdb]_vars

\* C36 happens: the only Notify call so far failed, no delivery has followed
\* the key, key and counter are in the store, and a second execution with the
\* same firing alert has been dropped by DedupStage without a call.
C36_DroppedAfterFailedDelivery ==
    \E e \in Execs : \E i \in cfg.integrations :
        /\ starts = cfg.starts - 2
        /\ hist[i].fired = "set" /\ hist[i].delivered = 0
        /\ metrics[i].numNotificationRequestsTotal = 1
        /\ metrics[i].numNotificationRequestsFailedTotal = 1
        /\ metrics[i].numNotifications = 1
        /\ SameStage(e, i) /\ rdb[i].sent = 1
        /\ exec[e].st = "fanout"
        /\ task[e][i].pc = "done" /\ task[e][i].calls = 0 /\ task[e][i].out = <<>>

\* ---- properties of the store after a resolved delivery

\* C37: nothing cleans up after a resolved delivery.  The counter never goes
\* down; a state key goes only when its TTL runs out or when the DedupStage of
\* a firing alert at another stage deletes it; no step of an execution on a
\* resolved alert, its Notify call and the return of the fan-out included,
\* changes the store.  So a resolved alert whose key exists when Exists is
\* asked (and answers) is emitted, and an integration that sends resolved
\* alerts is called with it unless the context is done first.
C37_ResolvedSentWhileKeyLives ==
    [][\A i \in cfg.integrations :
          /\ rdb'[i].sent >= rdb[i].sent
          /\ (Exists(i) /\ rdb'[i].stage = NoKey) =>
                \/ \E e \in Execs :
                      StepFrom(e, i, "del") /\ ~alert[e].Resolved /\ Transition(e, i)
                \/ /\ rdb[i].ttl = 1
                   /\ \A e \in Execs : task'[e][i].pc = task[e][i].pc
          /\ \A e \in Execs :
                /\ (alert[e].Resolved /\ (task'[e] # task[e] \/ exec'[e] # exec[e]))
                      => rdb' = rdb
                /\ (StepFrom(e, i, "dedup") /\ alert[e].Resolved /\ HasKeys(e)
                       /\ NoKvErr(e, i) /\ Exists(i))
                      => task'[e][i].pc = "getcnt"
                /\ (StepFrom(e, i, "getcnt") /\ alert[e].Resolved)
                      => task'[e][i].pc = "retry" /\ task'[e][i].out = <<e>>
                /\ (StepFrom(e, i, "retry") /\ alert[e].Resolved /\ SendResolved(i)
                       /\ ~ctx[e].done)
                      => task'[e][i].pc = "select" /\ task'[e][i].sent = <<e>>
                /\ (StepFrom(e, i, "select") /\ ~ctx[e].done)
                      => task'[e][i].calls = task[e][i].calls + 1]_vars

\* C37 happens: after one firing delivery the resolved alert has been sent in
\* two executions, the second call just answered; key and counter are as the
\* firing execution left them.
C37_ResolvedSentTwice ==
    \E e \in Execs :
        /\ starts = cfg.starts - 3
        /\ alert[e].Resolved /\ SentResolved(e, "webhook")
        /\ task[e]["webhook"].calls = 1 /\ task[e]["webhook"].last = "ok"
        /\ metrics["webhook"].numNotificationRequestsTotal = 3
        /\ metrics["webhook"].numNotificationRequestsFailedTotal = 0
        /\ hist["webhook"].delivered = 1
        /\ Exists("webhook") /\ rdb["webhook"].sent = 1

\* ---- properties of the state key

\* The string has no separator in it; it begins with the prefix p.
NoSeparator(s) == \A k \in 1..Len(s) : s[k] # ":"
BeginsWith(s, p) == Len(s) >= Len(p) /\ SubSeq(s, 1, Len(p)) = p

\* C38 as stated: no other tuple has the state key of this one, and this state
\* key is the counter key of no tuple, whatever the component strings.
C38_StateKeyInjective ==
    unit.op = "stateKey" =>
       /\ \A u \in KeyTuples \ {unit.in} : KeysOf(u).sKey # unit.ret.sKey
       /\ \A u \in KeyTuples : KeysOf(u).sent # unit.ret.sKey

\* C38, amended: two distinct tuples whose receiver names and integration names
\* have no ':' in them have distinct state keys, also when their group keys
\* contain ':'; and the state key of a tuple whose group key does not begin
\* with 'alert-sent-' is the counter key of no tuple.
C38_InjectiveForPlainNames ==
    unit.op = "stateKey" =>
       /\ \A u \in KeyTuples \ {unit.in} :
             (/\ NoSeparator(u.r.GroupName) /\ NoSeparator(u.r.Integration)
              /\ NoSeparator(unit.in.r.GroupName) /\ NoSeparator(unit.in.r.Integration))
             => KeysOf(u).sKey # unit.ret.sKey
       /\ ~BeginsWith(unit.in.k, AlertSentPrefix) =>
             \A u \in KeyTuples : KeysOf(u).sent # unit.ret.sKey

\* C38 happens: the key of a tuple with a ':' in its group key and a plain
\* receiver name is also the key of another tuple, one with a ':' in its
\* receiver name.
C38_TwoTuplesOneKey ==
    /\ unit.op = "stateKey"
    /\ unit.in.k = <<"g", ":", "r">> /\ unit.in.r.GroupName = <<"r">>
    /\ unit.ret.sKey = <<"g", ":", "r", ":", "r", ":", "w", ":", "1", ":", "1", "2">>
    /\ \E u \in KeyTuples \ {unit.in} :
          /\ u.k = <<"g">> /\ u.r.GroupName = <<"r", ":", "r">>
          /\ KeysOf(u).sKey = unit.ret.sKey

====
